---------------------------- MODULE Spec2Model ----------------------------
(***************************************************************************)
(* StarSim: the per-tick simulation engine (src/starsim/core/sim.py) and   *)
(* the components it drives.                                               *)
(*                                                                         *)
(* Numbers.  The program computes in Python floats.  The model computes in *)
(* exact integers at a fixed resolution:                                   *)
(*   - a pressure (stability, unrest, ...) p is held as p * PS;            *)
(*   - a commodity quantity q is held as q * QS (a "quantum" is 1/QS);     *)
(*   - a price p is held as p * PrS;                                       *)
(*   - a per-capita rate r is held as r * QS (quanta per head);            *)
(*   - a growth rate, burn rate or multiplier is held in percent.          *)
(* Every quotient is computed exactly on integers and floored once, where  *)
(* the float computation rounds; comparisons are cross-multiplied.  The    *)
(* one quotient that is multiplied back and compared with its dividend,    *)
(* the units a recipe's input allows, is rounded to nearest as the float   *)
(* division rounds it (FloatDiv).                                          *)
(*                                                                         *)
(* Python dicts keep insertion order and several loops of the program      *)
(* depend on it, so a dict is a sequence of <<key, value>> pairs.          *)
(***************************************************************************)
EXTENDS Integers, Sequences, FiniteSets, TLC

VARIABLES sim, twin

vars == <<sim, twin>>

\* Fixed-point resolutions of the three float domains.
PS == 1000
QS == 10
PrS == 100

\* An absent optional component (Optional[...] = None) and an absent id.
None == [none |-> TRUE]
NoId == "none"

Min(a, b) == IF a <= b THEN a ELSE b
Max(a, b) == IF a >= b THEN a ELSE b

-----------------------------------------------------------------------------
(* Python dict, insertion ordered.                                         *)

DHas(d, k) == \E i \in 1..Len(d) : d[i][1] = k
DIdx(d, k) == CHOOSE i \in 1..Len(d) : d[i][1] = k
DGet(d, k, dflt) == IF DHas(d, k) THEN d[DIdx(d, k)][2] ELSE dflt
DSet(d, k, v) ==
    IF DHas(d, k) THEN [d EXCEPT ![DIdx(d, k)] = <<k, v>>] ELSE Append(d, <<k, v>>)
DDel(d, k) == SelectSeq(d, LAMBDA e : e[1] # k)
DKeys(d) == {d[i][1] : i \in 1..Len(d)}

-----------------------------------------------------------------------------
(* economy/inventory.py                                                    *)

\* The cleanup threshold 1e-9 of a quantity, in quanta: any whole quantum
\* is above it, so "below epsilon" is "below one quantum".
Epsilon == 1

InvGet(inv, c) == DGet(inv, c, 0)

\* Inventory.add raises ValueError on a negative quantity.
add_raises(q) == q < 0
add(inv, c, q) == DSet(inv, c, InvGet(inv, c) + q)

\* A removal that neither clamps nor cleans up.
remove_unclamped(inv, c, q) ==
    [inv |-> DSet(inv, c, InvGet(inv, c) - q), removed |-> q]

\* Inventory.remove_clamped: the defaultdict read creates the entry, the
\* clamped amount is subtracted, an entry below epsilon is deleted.
remove_clamped(inv, c, q) ==
    LET current_qty == InvGet(inv, c)
        actual_removed == Min(q, current_qty)
        left == current_qty - actual_removed
    IN  [inv |-> IF left < Epsilon THEN DDel(inv, c) ELSE DSet(inv, c, left),
         removed |-> actual_removed]

-----------------------------------------------------------------------------
(* The read-only registries (data/*.yaml, loaded by UniverseState).        *)

\* economy/commodities.py: id and base price, in registry order.
CommodityRegistry ==
    << [id |-> "food",           base_price |-> 10 * PrS],
       [id |-> "consumer_goods", base_price |-> 20 * PrS],
       [id |-> "minerals",       base_price |-> 5 * PrS],
       [id |-> "energy",         base_price |-> 4 * PrS] >>

Commodities == {CommodityRegistry[i].id : i \in 1..Len(CommodityRegistry)}

\* CommodityRegistry.get raises ValueError on an unknown id.
commodity_raises(c) == c \notin Commodities
base_price(c) ==
    CommodityRegistry[CHOOSE i \in 1..Len(CommodityRegistry) :
                         CommodityRegistry[i].id = c].base_price

\* economy/recipes.py: quantities are whole units per production unit; a
\* number of production units is held in tenths, like a quantity.
RecipeRegistry ==
    << [id |-> "farm_food", inputs |-> << >>,
        outputs |-> << <<"food", 2>> >>,
        max_production_units_per_tick |-> 10 * QS],
       [id |-> "refine_consumer_goods",
        inputs |-> << <<"minerals", 5>>, <<"energy", 2>> >>,
        outputs |-> << <<"consumer_goods", 1>> >>,
        max_production_units_per_tick |-> 10 * QS],
       [id |-> "assemble_alloys", inputs |-> << <<"minerals", 10>> >>,
        outputs |-> << <<"alloy", 1>> >>,
        max_production_units_per_tick |-> 10 * QS] >>

Recipes == {RecipeRegistry[i].id : i \in 1..Len(RecipeRegistry)}

\* RecipeRegistry.get raises ValueError on an unknown id.
recipe_raises(r) == r \notin Recipes
recipe_get(r) ==
    RecipeRegistry[CHOOSE i \in 1..Len(RecipeRegistry) : RecipeRegistry[i].id = r]

-----------------------------------------------------------------------------
(* economy/consumption.py                                                  *)

\* x + k * (num/den) in thousandths, the quotient floored.
Scaled(k, num, den) == (k * num) \div den

\* The update of a growing pressure with its clamp forgotten.
NoClampUp(p) == p
\* min(1.0, p + d), the upper clamp of a pressure that only grows.
ClampUp(p) == Min(PS, p)
\* max(0.0, p - d), the lower clamp of a pressure that only shrinks.
ClampDown(p) == Max(0, p)

\* The food part with the starving population rounded up, not down.
consume_food_ceiling(w) ==
    LET pop == w.population
        total_food_needed == pop.size * pop.food_required_per_capita_per_tick
        rem == IF total_food_needed > 0
               THEN remove_clamped(w.market.inventory, "food", total_food_needed)
               ELSE [inv |-> w.market.inventory, removed |-> 0]
        food_shortage == IF total_food_needed > 0
                         THEN total_food_needed - rem.removed ELSE 0
        den == IF total_food_needed > 0 THEN total_food_needed ELSE 1
        size == IF food_shortage > 0
                THEN Max(0, (pop.size * (20 * den - food_shortage) + 20 * den - 1)
                                \div (20 * den))
                ELSE IF pop.size > 0
                     THEN (pop.size * (200 * PS + pop.growth_rate
                                          * (w.stability + w.prosperity)))
                              \div (200 * PS)
                     ELSE pop.size
    IN  [w EXCEPT
           !.market.inventory = rem.inv,
           !.food_balance = rem.removed - total_food_needed,
           !.starvation_level = Scaled(PS, food_shortage, den),
           !.population.size = size,
           !.scarcity = ClampUp(w.scarcity + Scaled(20, food_shortage, den)),
           !.unrest = ClampUp(w.unrest + Scaled(30, food_shortage, den)),
           !.stability = ClampDown(w.stability - Scaled(40, food_shortage, den))]

\* The food part of consume: lines 57-86.
consume_food(w) ==
    LET pop == w.population
        total_food_needed == pop.size * pop.food_required_per_capita_per_tick
        rem == IF total_food_needed > 0
               THEN remove_clamped(w.market.inventory, "food", total_food_needed)
               ELSE [inv |-> w.market.inventory, removed |-> 0]
        food_shortage == IF total_food_needed > 0
                         THEN total_food_needed - rem.removed ELSE 0
        den == IF total_food_needed > 0 THEN total_food_needed ELSE 1
        size == IF food_shortage > 0
                THEN Max(0, (pop.size * (20 * den - food_shortage)) \div (20 * den))
                ELSE IF pop.size > 0
                     THEN (pop.size * (200 * PS + pop.growth_rate
                                          * (w.stability + w.prosperity)))
                              \div (200 * PS)
                     ELSE pop.size
    IN  [w EXCEPT
           !.market.inventory = rem.inv,
           !.food_balance = rem.removed - total_food_needed,
           !.starvation_level = Scaled(PS, food_shortage, den),
           !.population.size = size,
           !.scarcity = ClampUp(w.scarcity + Scaled(20, food_shortage, den)),
           !.unrest = ClampUp(w.unrest + Scaled(30, food_shortage, den)),
           !.stability = ClampDown(w.stability - Scaled(40, food_shortage, den))]

\* The consumer-goods part of consume: lines 88-122.
consume_consumer_goods(w) ==
    LET pop == w.population
        total_cg_needed == pop.size * pop.consumer_goods_required_per_capita_per_tick
        cg_available == InvGet(w.market.inventory, "consumer_goods")
        rem == IF total_cg_needed > 0
               THEN remove_clamped(w.market.inventory, "consumer_goods",
                                   total_cg_needed)
               ELSE [inv |-> w.market.inventory, removed |-> 0]
        cg_shortage == IF total_cg_needed > 0
                       THEN total_cg_needed - rem.removed ELSE 0
        den == IF total_cg_needed > 0 THEN total_cg_needed ELSE 1
        excess == cg_available - rem.removed
        w1 == [w EXCEPT
                 !.market.inventory = rem.inv,
                 !.consumer_goods_balance = rem.removed - total_cg_needed,
                 !.consumer_goods_shortage_level = Scaled(PS, cg_shortage, den)]
    IN  IF cg_shortage > 0
        THEN [w1 EXCEPT
                !.stability = ClampDown(w.stability - Scaled(20, cg_shortage, den)),
                !.prosperity = ClampDown(w.prosperity - Scaled(10, cg_shortage, den)),
                !.unrest = ClampUp(w.unrest + Scaled(10, cg_shortage, den))]
        ELSE IF excess > 0 /\ pop.size > 0
             THEN \* bonus = excess per head * 100 * 0.005; burn = excess * rate
                  [w1 EXCEPT
                     !.stability =
                         ClampUp(w.stability + (excess * PS) \div (2 * QS * pop.size)),
                     !.market.inventory =
                         remove_clamped(rem.inv, "consumer_goods",
                             (excess * pop.consumer_goods_excess_burn_rate)
                                 \div 100).inv]
             ELSE w1

\* The generic needs of consume, from entry i of population.needs on:
\* lines 124-142.  Food and consumer goods are skipped.
RECURSIVE consume_needs(_, _)
consume_needs(w, i) ==
    IF i > Len(w.population.needs) THEN w
    ELSE LET c == w.population.needs[i][1]
             needed_qty == w.population.needs[i][2] * w.population.size
             rem == remove_clamped(w.market.inventory, c, needed_qty)
             short == IF needed_qty > 0 THEN needed_qty - rem.removed ELSE 0
             den == IF needed_qty > 0 THEN needed_qty ELSE 1
             w1 == [w EXCEPT !.market.inventory = rem.inv]
             w2 == IF 10 * short > den
                   THEN [w1 EXCEPT
                           !.scarcity = ClampUp(w.scarcity + Scaled(10, short, den)),
                           !.stability = ClampDown(w.stability - Scaled(50, short, den)),
                           !.unrest = ClampUp(w.unrest + Scaled(50, short, den))]
                   ELSE w1
         IN  IF c \in {"food", "consumer_goods"}
             THEN consume_needs(w, i + 1)
             ELSE consume_needs(w2, i + 1)

\* A consumption that leaves food, and with it the population, alone.
consume_without_food(w) ==
    IF w.population = None \/ w.market = None THEN w
    ELSE consume_needs(consume_consumer_goods(w), 1)

\* consume(world, tick).
consume(w) ==
    IF w.population = None \/ w.market = None THEN w
    ELSE consume_needs(consume_consumer_goods(consume_food(w)), 1)

-----------------------------------------------------------------------------
(* economy/production.py                                                   *)

SetMin(S) == CHOOSE x \in S : \A y \in S : x <= y

RECURSIVE remove_inputs(_, _, _, _)
remove_inputs(inv, inputs, units, i) ==
    IF i > Len(inputs) THEN inv
    ELSE remove_inputs(remove_clamped(inv, inputs[i][1], inputs[i][2] * units).inv,
                       inputs, units, i + 1)

RECURSIVE add_outputs(_, _, _, _)
add_outputs(inv, outputs, units, i) ==
    IF i > Len(outputs) THEN inv
    ELSE add_outputs(add(inv, outputs[i][1], outputs[i][2] * units),
                     outputs, units, i + 1)

\* available_input / input_qty_per_unit.  The float quotient is the
\* representable number nearest to the exact one, above it or below it: the
\* quotient here is the nearest tenth of a unit, the even one of two that
\* are equally near.
FloatDiv(a, b) ==
    LET q == a \div b
        r == a % b
    IN  IF 2 * r < b THEN q
        ELSE IF 2 * r > b THEN q + 1
        ELSE IF q % 2 = 0 THEN q ELSE q + 1

\* Lines 30-39: the units are the least of the industry cap, the recipe's
\* own limit and what each input with a positive requirement allows.
production_units(w, recipe, cap_amount) ==
    LET inv == w.market.inventory
        by_inputs == {FloatDiv(InvGet(inv, recipe.inputs[j][1]), recipe.inputs[j][2]) :
                         j \in {k \in 1..Len(recipe.inputs) : recipe.inputs[k][2] > 0}}
    IN  SetMin({cap_amount, recipe.max_production_units_per_tick} \cup by_inputs)

\* A recipe that runs past its own limit of units per tick.
produce_recipe_unlimited(w, recipe, cap_amount) ==
    LET units == production_units(w, [recipe EXCEPT
                                        !.max_production_units_per_tick = cap_amount],
                                  cap_amount)
    IN  IF units > 0
        THEN [w EXCEPT !.market.inventory =
                 add_outputs(remove_inputs(@, recipe.inputs, units, 1),
                             recipe.outputs, units, 1)]
        ELSE w

\* One recipe of produce, lines 41-48: the inputs are removed, the outputs
\* added.
produce_recipe(w, recipe, cap_amount) ==
    LET units == production_units(w, recipe, cap_amount)
    IN  IF units > 0
        THEN [w EXCEPT !.market.inventory =
                 add_outputs(remove_inputs(@, recipe.inputs, units, 1),
                             recipe.outputs, units, 1)]
        ELSE w

\* produce(world, state) from entry i of industry.caps on.  An unknown
\* recipe id raises out of the loop: what the earlier recipes did stays.
RECURSIVE produce_from(_, _)
produce_from(w, i) ==
    IF i > Len(w.industry.caps) THEN [world |-> w, raised |-> FALSE]
    ELSE IF recipe_raises(w.industry.caps[i][1])
         THEN [world |-> w, raised |-> TRUE]
         ELSE produce_from(produce_recipe(w, recipe_get(w.industry.caps[i][1]),
                                          w.industry.caps[i][2]), i + 1)

produce(w) ==
    IF w.market = None \/ w.industry = None
    THEN [world |-> w, raised |-> FALSE]
    ELSE produce_from(w, 1)

-----------------------------------------------------------------------------
(* economy/upkeep.py                                                       *)

RECURSIVE SumCaps(_, _)
SumCaps(caps, i) == IF i > Len(caps) THEN 0 ELSE caps[i][2] + SumCaps(caps, i + 1)

\* apply_upkeep(world, state): energy for the population and a tenth of a
\* unit per unit of industry cap; a deficit costs stability and prosperity
\* and throttles every cap.
apply_upkeep(w) ==
    IF w.market = None \/ w.population = None \/ w.industry = None THEN w
    ELSE LET population_upkeep ==
                 w.population.size * w.population.energy_upkeep_per_capita_per_tick
             infrastructure_upkeep == SumCaps(w.industry.caps, 1) \div 10
             total_energy_upkeep == population_upkeep + infrastructure_upkeep
             rem == remove_clamped(w.market.inventory, "energy", total_energy_upkeep)
             energy_deficit == total_energy_upkeep - rem.removed
             w1 == [w EXCEPT !.market.inventory = rem.inv]
         IN  IF energy_deficit > 0
             THEN [w1 EXCEPT
                     !.stability = ClampDown(w.stability
                         - Scaled(50, energy_deficit, total_energy_upkeep)),
                     !.prosperity = ClampDown(w.prosperity
                         - Scaled(50, energy_deficit, total_energy_upkeep)),
                     !.industry.caps =
                         [i \in 1..Len(w.industry.caps) |->
                            <<w.industry.caps[i][1],
                              Max(0, (w.industry.caps[i][2]
                                        * (10 * total_energy_upkeep - energy_deficit))
                                     \div (10 * total_energy_upkeep))>>]]
             ELSE w1

-----------------------------------------------------------------------------
(* economy/market.py                                                       *)

\* The default target (10.0 units of cover) of a commodity without one.
DefaultTarget == 10 * QS

\* Lines 35-41: every registry commodity gets a target and a price.
RECURSIVE ensure_defaults(_, _)
ensure_defaults(m, i) ==
    IF i > Len(CommodityRegistry) THEN m
    ELSE LET c == CommodityRegistry[i]
             m1 == IF DHas(m.targets, c.id) THEN m
                   ELSE [m EXCEPT !.targets = Append(m.targets, <<c.id, DefaultTarget>>)]
             m2 == IF DHas(m1.prices, c.id) THEN m1
                   ELSE [m1 EXCEPT !.prices = Append(m1.prices, <<c.id, c.base_price>>)]
         IN  ensure_defaults(m2, i + 1)

\* A price pushed through the two bounds with the upper one forgotten.
clamp_price_low_only(m, c, new_price) ==
    Max((base_price(c) * m.min_price_multiplier) \div 100, new_price)

\* max(min_bound, min(max_bound, new_price))
clamp_price(m, c, new_price) ==
    Max((base_price(c) * m.min_price_multiplier) \div 100,
        Min((base_price(c) * m.max_price_multiplier) \div 100, new_price))

\* new_price = current_price * (1 + (1 - ratio) * price_change_factor), with
\* ratio = qty / target, or 10 when the target is not positive.
adjusted_price(m, current_price, current_qty, target_qty) ==
    IF target_qty > 0
    THEN (current_price * (100 * target_qty
                            + (target_qty - current_qty) * m.price_change_factor))
             \div (100 * target_qty)
    ELSE (current_price * (100 - 9 * m.price_change_factor)) \div 100

\* Lines 43-74, from entry i of market.targets on.  The registry lookup of a
\* commodity it does not hold raises.
RECURSIVE update_targets(_, _)
update_targets(m, i) ==
    IF i > Len(m.targets) THEN [market |-> m, raised |-> FALSE]
    ELSE LET c == m.targets[i][1]
         IN  IF commodity_raises(c) THEN [market |-> m, raised |-> TRUE]
             ELSE update_targets(
                    [m EXCEPT !.prices =
                        DSet(m.prices, c,
                             clamp_price(m, c,
                                adjusted_price(m, DGet(m.prices, c, base_price(c)),
                                               InvGet(m.inventory, c),
                                               m.targets[i][2])))],
                    i + 1)

\* update_prices(world, state)
update_prices(w) ==
    IF w.market = None THEN [world |-> w, raised |-> FALSE]
    ELSE LET r == update_targets(ensure_defaults(w.market, 1), 1)
         IN  [world |-> [w EXCEPT !.market = r.market], raised |-> r.raised]

-----------------------------------------------------------------------------
(* economy/trade.py, logistics/capacity.py, logistics/shipping.py          *)

\* TRADE_THRESHOLD = 0.1, as a price.
TRADE_THRESHOLD == PrS \div 10
\* "Trade up to 10 units."
TradeBatch == 10 * QS

\* Python's round() of a distance held in tenths: half goes to even.
PyRound(d) ==
    LET q == d \div 10
        r == d % 10
    IN  IF r < 5 THEN q
        ELSE IF r > 5 THEN q + 1
        ELSE IF q % 2 = 0 THEN q ELSE q + 1

\* An arbitrage test on the profit alone, wherever the prices stand to the
\* base price.
ArbitrageAnyBase(lane, c, price_from, price_to) ==
    (price_to - price_from - TRADE_THRESHOLD) * 20000
        > base_price(c) * (20 * lane.distance + lane.hazard)

\* profit = price_to - price_from - base * (distance*0.01 + hazard*0.05)
\* exceeds the threshold, the source below and the destination above base.
Arbitrage(lane, c, price_from, price_to) ==
    /\ price_from < base_price(c)
    /\ price_to > base_price(c)
    /\ (price_to - price_from - TRADE_THRESHOLD) * 20000
           > base_price(c) * (20 * lane.distance + lane.hazard)

RECURSIVE Incoming(_, _, _, _)
Incoming(ships, w, c, i) ==
    IF i > Len(ships) THEN 0
    ELSE (IF ships[i].destination_world_id = w /\ ships[i].commodity_id = c
          THEN ships[i].quantity ELSE 0) + Incoming(ships, w, c, i + 1)

Shipment(c, q, src, dst, eta, lane_id) ==
    [commodity_id |-> c, quantity |-> q, source_world_id |-> src,
     destination_world_id |-> dst, eta_tick |-> eta, lane_id |-> lane_id]

\* Candidates that take the destination's unmet demand into account in
\* neither direction.
lane_candidates_no_deficit(u, lane_id, c) ==
    LET lane == u.lanes[lane_id]
        market_a == u.worlds[lane.a].market
        market_b == u.worlds[lane.b].market
        price_a == DGet(market_a.prices, c, -1)
        price_b == DGet(market_b.prices, c, -1)
        qty_ab == Min(InvGet(market_a.inventory, c), TradeBatch)
        qty_ba == Min(InvGet(market_b.inventory, c), TradeBatch)
        eta == u.tick + PyRound(lane.distance)
    IN  IF ~DHas(market_a.prices, c) \/ ~DHas(market_b.prices, c) THEN << >>
        ELSE (IF Arbitrage(lane, c, price_a, price_b) /\ qty_ab > 0
              THEN << Shipment(c, qty_ab, lane.a, lane.b, eta, lane_id) >>
              ELSE << >>)
             \o
             (IF Arbitrage(lane, c, price_b, price_a) /\ qty_ba > 0
              THEN << Shipment(c, qty_ba, lane.b, lane.a, eta, lane_id) >>
              ELSE << >>)

\* The candidates of one lane and one commodity: a to b, then b to a.
lane_candidates(u, lane_id, c) ==
    LET lane == u.lanes[lane_id]
        market_a == u.worlds[lane.a].market
        market_b == u.worlds[lane.b].market
        price_a == DGet(market_a.prices, c, -1)
        price_b == DGet(market_b.prices, c, -1)
        qty_ab == Min(InvGet(market_a.inventory, c), TradeBatch)
        dest_deficit ==
            Max(0, DGet(market_a.targets, c, DefaultTarget)
                     - (InvGet(market_a.inventory, c)
                          + Incoming(u.active_shipments, lane.a, c, 1)))
        qty_ba == SetMin({InvGet(market_b.inventory, c), TradeBatch, dest_deficit})
        eta == u.tick + PyRound(lane.distance)
    IN  IF ~DHas(market_a.prices, c) \/ ~DHas(market_b.prices, c) THEN << >>
        ELSE (IF Arbitrage(lane, c, price_a, price_b) /\ qty_ab > 0
              THEN << Shipment(c, qty_ab, lane.a, lane.b, eta, lane_id) >>
              ELSE << >>)
             \o
             (IF Arbitrage(lane, c, price_b, price_a) /\ qty_ba > 0
              THEN << Shipment(c, qty_ba, lane.b, lane.a, eta, lane_id) >>
              ELSE << >>)

\* build_candidate_trades(state), from lane i and commodity j on.  All
\* candidates are computed before any of them is shipped.
RECURSIVE candidates_from(_, _, _)
candidates_from(u, i, j) ==
    IF i > Len(u.lane_order) THEN << >>
    ELSE LET lane == u.lanes[u.lane_order[i]]
         IN  IF \/ lane.a \notin DOMAIN u.worlds
                \/ lane.b \notin DOMAIN u.worlds
                \/ u.worlds[lane.a].market = None
                \/ u.worlds[lane.b].market = None
                \/ j > Len(CommodityRegistry)
             THEN candidates_from(u, i + 1, 1)
             ELSE lane_candidates(u, u.lane_order[i], CommodityRegistry[j].id)
                     \o candidates_from(u, i, j + 1)

build_candidate_trades(u) == candidates_from(u, 1, 1)

\* LaneCapacity.get_remaining_capacity; the defaultdict read creates the
\* lane's entry.
get_remaining_capacity(used, lane_id, total_capacity) ==
    Max(0, total_capacity - DGet(used, lane_id, 0))
touch_capacity(used, lane_id) ==
    IF DHas(used, lane_id) THEN used ELSE Append(used, <<lane_id, 0>>)
add_used_capacity(used, lane_id, q) == DSet(used, lane_id, DGet(used, lane_id, 0) + q)

\* The quantity a new shipment carries, the amount deducted from the
\* source being `deducted`: the candidate's own quantity.
shipped_quantity(shipment, deducted) == shipment.quantity

\* A candidate that does not fit is cut down to the remaining capacity.
ship_candidate_partial(u, shipment) ==
    LET lane == u.lanes[shipment.lane_id]
        remaining == get_remaining_capacity(u.used_capacity, shipment.lane_id,
                                            lane.capacity)
        u1 == [u EXCEPT !.used_capacity = touch_capacity(@, shipment.lane_id)]
        src == shipment.source_world_id
        rem == remove_clamped(u.worlds[src].market.inventory,
                              shipment.commodity_id,
                              Min(shipment.quantity, remaining))
        u2 == [u1 EXCEPT !.worlds[src].market.inventory = rem.inv]
    IN  IF rem.removed > 0
        THEN [u2 EXCEPT
                !.active_shipments =
                    Append(@, [shipment EXCEPT !.quantity = rem.removed]),
                !.used_capacity =
                    add_used_capacity(@, shipment.lane_id, rem.removed)]
        ELSE u1

\* Lines 96-111 for one candidate.
ship_candidate(u, shipment) ==
    LET lane == u.lanes[shipment.lane_id]
        remaining == get_remaining_capacity(u.used_capacity, shipment.lane_id,
                                            lane.capacity)
        u1 == [u EXCEPT !.used_capacity = touch_capacity(@, shipment.lane_id)]
        src == shipment.source_world_id
        rem == remove_clamped(u.worlds[src].market.inventory,
                              shipment.commodity_id, shipment.quantity)
        u2 == [u1 EXCEPT !.worlds[src].market.inventory = rem.inv]
    IN  IF shipment.quantity <= remaining
        THEN IF rem.removed > 0
             THEN [u2 EXCEPT
                     !.active_shipments =
                         Append(@, [shipment EXCEPT
                                      !.quantity = shipped_quantity(shipment,
                                                                    rem.removed)]),
                     !.used_capacity =
                         add_used_capacity(@, shipment.lane_id, rem.removed)]
             ELSE u2
        ELSE u1

RECURSIVE ship_all(_, _, _)
ship_all(u, cands, i) ==
    IF i > Len(cands) THEN u ELSE ship_all(ship_candidate(u, cands[i]), cands, i + 1)

\* A delivery that waits one tick more than the shipment's eta_tick.
RECURSIVE deliver_late(_, _, _)
deliver_late(u, ships, i) ==
    IF i > Len(ships) THEN [state |-> [u EXCEPT !.active_shipments = << >>],
                            arrived |-> << >>]
    ELSE LET sh == ships[i]
             due == sh.eta_tick < u.tick
             u1 == IF due
                   THEN [u EXCEPT !.worlds[sh.destination_world_id].market.inventory =
                                      add(@, sh.commodity_id, sh.quantity)]
                   ELSE u
             rest == deliver_late(u1, ships, i + 1)
         IN  IF due
             THEN [state |-> rest.state, arrived |-> <<sh>> \o rest.arrived]
             ELSE [state |-> [rest.state EXCEPT !.active_shipments = <<sh>> \o @],
                   arrived |-> rest.arrived]

\* Lines 113-126: the shipments that are due are credited and leave the list.
RECURSIVE deliver(_, _, _)
deliver(u, ships, i) ==
    IF i > Len(ships) THEN [state |-> [u EXCEPT !.active_shipments = << >>],
                            arrived |-> << >>]
    ELSE LET sh == ships[i]
             due == sh.eta_tick <= u.tick
             u1 == IF due
                   THEN [u EXCEPT !.worlds[sh.destination_world_id].market.inventory =
                                      add(@, sh.commodity_id, sh.quantity)]
                   ELSE u
             rest == deliver(u1, ships, i + 1)
         IN  IF due
             THEN [state |-> rest.state, arrived |-> <<sh>> \o rest.arrived]
             ELSE [state |-> [rest.state EXCEPT !.active_shipments = <<sh>> \o @],
                   arrived |-> rest.arrived]

\* The shipments a call of process_trade appends to active_shipments.
departures(u) ==
    LET u0 == [u EXCEPT !.used_capacity = << >>]
        u1 == ship_all(u0, build_candidate_trades(u0), 1)
    IN  SubSeq(u1.active_shipments, Len(u.active_shipments) + 1,
               Len(u1.active_shipments))

\* capacity.py:18 reads used_capacity[lane_id].  The tracker a UniverseState
\* constructs holds a defaultdict, which answers 0 for a lane it has not
\* seen; the tracker from_dict builds holds a plain dict, which reset()
\* empties without replacing, so the read for the first candidate raises
\* KeyError.
capacity_raises(u, allow_new_trades) ==
    /\ allow_new_trades
    /\ u.plain_dicts
    /\ build_candidate_trades([u EXCEPT !.used_capacity = << >>]) # << >>

\* process_trade(state, allow_new_trades)
process_trade(u, allow_new_trades) ==
    LET u0 == [u EXCEPT !.used_capacity = << >>]
        u1 == IF allow_new_trades
              THEN ship_all(u0, build_candidate_trades(u0), 1)
              ELSE u0
    IN  IF capacity_raises(u, allow_new_trades)
        THEN [state |-> u0, arrived |-> << >>, raised |-> TRUE]
        ELSE [raised |-> FALSE] @@ deliver(u1, u1.active_shipments, 1)

-----------------------------------------------------------------------------
(* factions/model.py, factions/actions.py                                  *)

\* max(self.influence, key=self.influence.get): the first entry, in dict
\* order, whose influence no other exceeds.
dominant_faction(influence) ==
    influence[CHOOSE i \in 1..Len(influence) :
                 /\ \A j \in 1..Len(influence) : influence[j][2] <= influence[i][2]
                 /\ \A j \in 1..(i - 1) : influence[j][2] < influence[i][2]][1]

\* The flip to a new leader decided on the leader's influence alone.
may_flip_gain_only(fs, highest_influence) ==
    highest_influence >= fs.control_threshold_gain

\* The flip wants the leader at the gain threshold and the controller
\* below the loss threshold.
may_flip(fs, highest_influence) ==
    /\ highest_influence >= fs.control_threshold_gain
    /\ DGet(fs.influence, fs.control, 0) < fs.control_threshold_loss

\* WorldFactionState.resolve_control
resolve_control(fs) ==
    IF Len(fs.influence) = 0 THEN [fs EXCEPT !.control = NoId]
    ELSE LET current_dominant_faction == dominant_faction(fs.influence)
             highest_influence == DGet(fs.influence, current_dominant_faction, 0)
         IN  IF fs.control = NoId
             THEN IF highest_influence >= fs.control_threshold_gain
                  THEN [fs EXCEPT !.control = current_dominant_faction]
                  ELSE fs
             ELSE IF fs.control = current_dominant_faction THEN fs
             ELSE IF may_flip(fs, highest_influence)
                  THEN [fs EXCEPT !.control = current_dominant_faction]
                  ELSE fs

\* The step (0.1) by which expand_influence raises an influence.
InfluenceStep == PS \div 10

\* An expansion that takes the step from the other factions' influence.
expand_influence_zero_sum(w, f) ==
    IF w.factions = None THEN w
    ELSE [w EXCEPT !.factions =
             resolve_control([@ EXCEPT !.influence =
                 [i \in 1..Len(DSet(@, f, DGet(@, f, 0))) |->
                     IF DSet(@, f, DGet(@, f, 0))[i][1] = f
                     THEN <<f, DGet(@, f, 0) + InfluenceStep>>
                     ELSE <<DSet(@, f, DGet(@, f, 0))[i][1],
                            Max(0, DSet(@, f, DGet(@, f, 0))[i][2]
                                       - InfluenceStep)>>]])]

\* expand_influence(faction_id, world_id, state) on the world's record.
expand_influence(w, f) ==
    IF w.factions = None THEN w
    ELSE [w EXCEPT !.factions =
             resolve_control([@ EXCEPT !.influence =
                                 DSet(@, f, DGet(@, f, 0) + InfluenceStep)])]

\* aid_world(faction_id, world_id, state): +0.05 to stability and prosperity.
aid_world(w) ==
    [w EXCEPT !.stability = ClampUp(w.stability + PS \div 20),
              !.prosperity = ClampUp(w.prosperity + PS \div 20)]

-----------------------------------------------------------------------------
(* core/rng.py and the draws of random.Random                              *)

\* The generator is a deterministic function of its seed and of the draws
\* made so far: a full-period congruential generator stands for it.
RngMod == 16

\* A generator seeded from the system's entropy instead of the seed.
get_unseeded_rng(seed, entropy) == entropy % RngMod
\* get_seeded_rng(seed): random.Random(seed)
get_seeded_rng(seed, entropy) == seed % RngMod

rng_advance(g) == (5 * g + 3) % RngMod
\* random(): the generator after the draw, read as the fraction g / RngMod.
\* _randbelow(n): the draw scaled to 0..n-1.
rng_below(g, n) == (g * n) \div RngMod

-----------------------------------------------------------------------------
(* events/model.py, events/registry.py, events/generator.py,               *)
(* events/effects.py                                                       *)

Condition(type, min, max, tag, weight_multiplier) ==
    [type |-> type, min |-> min, max |-> max, tag |-> tag,
     weight_multiplier |-> weight_multiplier]

Effect(type, delta, commodity_id, quantity, lane_id, num_worlds) ==
    [type |-> type, delta |-> delta, commodity_id |-> commodity_id,
     quantity |-> quantity, lane_id |-> lane_id, num_worlds |-> num_worlds]

\* The events of data/events.yaml as EventRegistry.load_from_yaml holds
\* them: weights in tenths, multipliers whole.
EventRegistry ==
    << [id |-> "riot", base_weight |-> 10,
        conditions |-> << Condition("world_unrest", PS \div 2, PS, "", 3) >>,
        effects |-> << Effect("change_stability", -(PS \div 10), "", 0, NoId, 0),
                       Effect("change_unrest", PS \div 5, "", 0, NoId, 0) >>],
       [id |-> "bumper_harvest", base_weight |-> 10,
        conditions |-> << Condition("world_tag", 0, 0, "agri", 2) >>,
        effects |-> << Effect("add_inventory", 0, "food", 5 * QS, NoId, 0),
                       Effect("change_prosperity", PS \div 20, "", 0, NoId, 0) >>],
       [id |-> "blight", base_weight |-> 10,
        conditions |-> << Condition("world_scarcity", PS \div 2, PS, "", 2) >>,
        effects |-> << Effect("remove_inventory", 0, "food", 20 * QS, NoId, 0),
                       Effect("change_scarcity", PS \div 10, "", 0, NoId, 0) >>],
       [id |-> "pirates", base_weight |-> 10,
        conditions |-> << Condition("lane_hazard", PS \div 2, PS, "", 2) >>,
        effects |-> << Effect("change_lane_hazard", (3 * PS) \div 10, "", 0, NoId, 0),
                       Effect("remove_inventory_random_worlds", 0, "minerals",
                              5 * QS, NoId, 2) >>] >>

\* UniverseState.lanes_from: the lanes of the adjacency list of a world, in
\* lane order (the adjacency is the one rebuild_adjacency derives).
lanes_from(u, world_id) ==
    SelectSeq(u.lane_order,
              LAMBDA l : u.lanes[l].a = world_id \/ u.lanes[l].b = world_id)

condition_met(cond, w, u, world_id) ==
    CASE cond.type = "world_unrest" -> w.unrest >= cond.min /\ w.unrest <= cond.max
      [] cond.type = "world_scarcity" ->
             w.scarcity >= cond.min /\ w.scarcity <= cond.max
      [] cond.type = "world_tag" -> cond.tag \in w.tags
      [] cond.type = "world_tech" -> w.tech >= cond.min /\ w.tech <= cond.max
      [] cond.type = "lane_hazard" ->
             \E i \in 1..Len(lanes_from(u, world_id)) :
                 LET lane == u.lanes[lanes_from(u, world_id)[i]]
                 IN  lane.hazard >= cond.min /\ lane.hazard <= cond.max
      [] OTHER -> FALSE

\* evaluate_event_conditions: only the conditions that are met scale the
\* multiplier, which starts at 1.
RECURSIVE evaluate_event_conditions(_, _, _, _)
evaluate_event_conditions(event_def, u, world_id, i) ==
    IF i > Len(event_def.conditions) THEN 1
    ELSE (IF condition_met(event_def.conditions[i], u.worlds[world_id], u, world_id)
          THEN event_def.conditions[i].weight_multiplier ELSE 1)
         * evaluate_event_conditions(event_def, u, world_id, i + 1)

\* The (event, world, weight) triples of positive weight, worlds first.
RECURSIVE possible_events(_, _, _)
possible_events(u, i, j) ==
    IF i > Len(u.world_order) THEN << >>
    ELSE IF j > Len(u.event_registry) THEN possible_events(u, i + 1, 1)
    ELSE LET final_weight ==
                 u.event_registry[j].base_weight
                   * evaluate_event_conditions(u.event_registry[j], u,
                                               u.world_order[i], 1)
         IN  (IF final_weight > 0
              THEN << [event |-> j, world_id |-> u.world_order[i],
                       weight |-> final_weight] >>
              ELSE << >>) \o possible_events(u, i, j + 1)

RECURSIVE SumWeights(_, _)
SumWeights(items, n) == IF n = 0 THEN 0 ELSE items[n].weight + SumWeights(items, n - 1)

\* One pick of rng.choices: the first item whose cumulative weight exceeds
\* random() * total.
weighted_pick(items, g) ==
    items[CHOOSE i \in 1..Len(items) :
             /\ SumWeights(items, i) * RngMod > g * SumWeights(items, Len(items))
             /\ \A j \in 1..(i - 1) :
                    SumWeights(items, j) * RngMod <= g * SumWeights(items, Len(items))]

\* rng.choices(items, weights, k): k picks, each from the whole list.
RECURSIVE choices(_, _, _)
choices(items, g, k) ==
    IF k = 0 THEN [picked |-> << >>, rng |-> g]
    ELSE LET g1 == rng_advance(g)
             rest == choices(items, g1, k - 1)
         IN  [picked |-> <<weighted_pick(items, g1)>> \o rest.picked, rng |-> rest.rng]

\* generate_events(state, max_events_per_tick)
generate_events(u, max_events_per_tick) ==
    LET items == possible_events(u, 1, 1)
    IN  IF Len(items) = 0 THEN [picked |-> << >>, rng |-> u.rng]
        ELSE choices(items, u.rng, Min(max_events_per_tick, Len(items)))

Clamp01(p) == Max(0, Min(PS, p))

\* rng.sample(ids, k): k draws without replacement.
RECURSIVE sample(_, _, _)
sample(ids, g, k) ==
    IF k = 0 THEN [picked |-> << >>, rng |-> g]
    ELSE LET g1 == rng_advance(g)
             at == rng_below(g1, Len(ids)) + 1
             rest == sample(SelectSeq(ids, LAMBDA x : x # ids[at]), g1, k - 1)
         IN  [picked |-> <<ids[at]>> \o rest.picked, rng |-> rest.rng]

RECURSIVE remove_from_worlds(_, _, _, _, _)
remove_from_worlds(u, ids, c, q, i) ==
    IF i > Len(ids) THEN u
    ELSE remove_from_worlds(
            IF u.worlds[ids[i]].market = None THEN u
            ELSE [u EXCEPT !.worlds[ids[i]].market.inventory =
                               remove_clamped(@, c, q).inv],
            ids, c, q, i + 1)

\* apply_effect(effect, world, state).  A negative quantity raises in the
\* inventory (the registry's sampled removal has none); an effect naming
\* its lane raises at LaneId(lane_id), a name the module imports for type
\* checking only.
apply_effect(effect, world_id, u) ==
    LET w == u.worlds[world_id]
        ok(v) == [state |-> v, raised |-> FALSE]
        failed == [state |-> u, raised |-> TRUE]
    IN  CASE effect.type = "change_stability" ->
                 ok([u EXCEPT !.worlds[world_id].stability = Clamp01(@ + effect.delta)])
          [] effect.type = "change_prosperity" ->
                 ok([u EXCEPT !.worlds[world_id].prosperity = Clamp01(@ + effect.delta)])
          [] effect.type = "change_unrest" ->
                 ok([u EXCEPT !.worlds[world_id].unrest = Clamp01(@ + effect.delta)])
          [] effect.type = "change_scarcity" ->
                 ok([u EXCEPT !.worlds[world_id].scarcity = Clamp01(@ + effect.delta)])
          [] effect.type = "add_inventory" ->
                 IF w.market = None THEN ok(u)
                 ELSE IF add_raises(effect.quantity) THEN failed
                 ELSE ok([u EXCEPT !.worlds[world_id].market.inventory =
                                       add(@, effect.commodity_id, effect.quantity)])
          [] effect.type = "remove_inventory" ->
                 IF w.market = None THEN ok(u)
                 ELSE IF effect.quantity < 0 THEN failed
                 ELSE ok([u EXCEPT !.worlds[world_id].market.inventory =
                                       remove_clamped(@, effect.commodity_id,
                                                      effect.quantity).inv])
          [] effect.type = "change_lane_hazard" ->
                 IF effect.lane_id # NoId THEN failed
                 ELSE LET connected == lanes_from(u, world_id)
                          g1 == rng_advance(u.rng)
                          lane_id == connected[rng_below(g1, Len(connected)) + 1]
                      IN  IF Len(connected) = 0 THEN ok(u)
                          ELSE ok([u EXCEPT !.rng = g1,
                                            !.lanes[lane_id].hazard =
                                                Clamp01(@ + effect.delta)])
          [] effect.type = "remove_inventory_random_worlds" ->
                 LET s == sample(u.world_order, u.rng,
                                 Min(effect.num_worlds, Len(u.world_order)))
                 IN  ok(remove_from_worlds([u EXCEPT !.rng = s.rng], s.picked,
                                           effect.commodity_id, effect.quantity, 1))
          [] OTHER -> ok(u)

-----------------------------------------------------------------------------
(* factions/integrate.py                                                   *)

\* apply_faction_actions(state): the loop body calls select_action, a name
\* the module imports under TYPE_CHECKING only, so the first faction raises
\* NameError; without factions the loop does nothing.
apply_faction_actions(u) ==
    [state |-> u, raised |-> Len(u.factions) > 0]

-----------------------------------------------------------------------------
(* core/log.py and core/sim.py: one call of step, stage by stage.          *)
(* A run is a UniverseState with the call in progress on it: the stage     *)
(* about to run (pc), the call's AuditLog, the TickReport last returned,   *)
(* whether the last call raised, the state and number of calls made at the *)
(* start of the call, the stages the call has completed and the shipments  *)
(* its trade stage sent off.                                               *)

\* An entry recorded without the id of its world.
EntryWithoutWorld(type, tick, world_id, delta, details) ==
    [type |-> type, tick |-> tick, world_id |-> NoId, delta |-> delta,
     details |-> details]

\* AuditLog.add_entry.  The reason text is a rendering of the details.
Entry(type, tick, world_id, delta, details) ==
    [type |-> type, tick |-> tick, world_id |-> world_id, delta |-> delta,
     details |-> details]

\* The stages with consumption and production exchanged.
SwappedStageOrder ==
    <<"production", "consumption", "trade", "prices", "factions", "events">>
\* The order in which step runs the stages.
StageOrder ==
    <<"consumption", "production", "trade", "prices", "factions", "events">>

stage_after(pc) ==
    LET i == CHOOSE k \in 1..Len(StageOrder) : StageOrder[k] = pc
    IN  IF i = Len(StageOrder) THEN "end" ELSE StageOrder[i + 1]

\* A stage has completed: the next one is due.
completed(r, u, log) ==
    [r EXCEPT !.state = u, !.log = log, !.pc = stage_after(r.pc),
              !.done = Append(@, r.pc)]

\* An exception that leaves step through the increment of the tick.
raise_after_increment(r, u) ==
    [r EXCEPT !.state = [u EXCEPT !.tick = @ + 1], !.log = << >>, !.pc = "idle",
              !.raised = TRUE]

\* An exception leaves step: the log is lost, the state stays as it is.
raise(r, u) ==
    [r EXCEPT !.state = u, !.log = << >>, !.pc = "idle", !.raised = TRUE]

\* Lines 28-44.
RECURSIVE consumption_loop(_, _, _)
consumption_loop(u, log, i) ==
    IF i > Len(u.world_order) THEN [state |-> u, log |-> log]
    ELSE LET id == u.world_order[i]
             w == u.worlds[id]
             w1 == consume(w)
         IN  IF w.population # None /\ w.market # None
             THEN consumption_loop(
                    [u EXCEPT !.worlds[id] = w1],
                    IF w1.stability # w.stability \/ w1.unrest # w.unrest
                    THEN Append(log, Entry("economy.consumption.impact", u.tick, id, 0,
                                           << <<"old_stability", w.stability>>,
                                              <<"new_stability", w1.stability>>,
                                              <<"old_unrest", w.unrest>>,
                                              <<"new_unrest", w1.unrest>> >>))
                    ELSE log,
                    i + 1)
             ELSE consumption_loop(
                    u, Append(log, Entry("economy.consumption", u.tick, id, 0, << >>)),
                    i + 1)

consumption_stage(r) ==
    LET res == consumption_loop(r.state, r.log, 1)
    IN  completed(r, res.state, res.log)

\* The inventory differences that are not zero, by commodity.
RECURSIVE inventory_changes(_, _, _)
inventory_changes(before, after, j) ==
    IF j > Len(CommodityRegistry) THEN << >>
    ELSE LET c == CommodityRegistry[j].id
             d == InvGet(after, c) - InvGet(before, c)
         IN  (IF d # 0 THEN << <<c, d>> >> ELSE << >>)
                \o inventory_changes(before, after, j + 1)

\* Lines 46-66.
RECURSIVE production_loop(_, _, _)
production_loop(u, log, i) ==
    IF i > Len(u.world_order) THEN [state |-> u, log |-> log, raised |-> FALSE]
    ELSE LET id == u.world_order[i]
             w == u.worlds[id]
             res == produce(w)
             changes == inventory_changes(w.market.inventory,
                                          res.world.market.inventory, 1)
         IN  IF w.industry # None /\ w.market # None
             THEN IF res.raised
                  THEN [state |-> [u EXCEPT !.worlds[id] = res.world], log |-> log,
                        raised |-> TRUE]
                  ELSE production_loop(
                         [u EXCEPT !.worlds[id] = res.world],
                         IF Len(changes) > 0
                         THEN Append(log, Entry("economy.production.output", u.tick,
                                                id, 0, changes))
                         ELSE log,
                         i + 1)
             ELSE production_loop(
                    u, Append(log, Entry("economy.production", u.tick, id, 0, << >>)),
                    i + 1)

production_stage(r) ==
    LET res == production_loop(r.state, r.log, 1)
    IN  IF res.raised THEN raise(r, res.state) ELSE completed(r, res.state, res.log)

\* Lines 68-85.  The first entry lists whatever is in flight after the call.
trade_stage(r) ==
    LET res == process_trade(r.state, TRUE)
        ships == res.state.active_shipments
        log1 == IF Len(ships) > 0
                THEN Append(r.log,
                       Entry("economy.trade.new_shipments", r.state.tick, NoId, 0,
                             [k \in 1..Len(ships) |-> <<ships[k].commodity_id, 0>>]))
                ELSE r.log
        log2 == IF Len(res.arrived) > 0
                THEN Append(log1,
                       Entry("economy.trade.arrivals", r.state.tick, NoId, 0,
                             [k \in 1..Len(res.arrived) |->
                                <<res.arrived[k].commodity_id,
                                  res.arrived[k].quantity>>]))
                ELSE Append(log1, Entry("economy.trade", r.state.tick, NoId, 0, << >>))
    IN  IF res.raised THEN raise(r, res.state)
        ELSE [completed(r, res.state, log2) EXCEPT !.departed = departures(r.state)]

\* Lines 92-102: one entry for every price that differs from the one held
\* before the update (the base price when there was none).
RECURSIVE price_entries(_, _, _, _, _)
price_entries(before, after, tick, id, k) ==
    IF k > Len(after) THEN << >>
    ELSE LET c == after[k][1]
             old_price == DGet(before, c, base_price(c))
         IN  (IF old_price # after[k][2]
              THEN << Entry("economy.prices.update", tick, id, after[k][2] - old_price,
                            << <<c, old_price>>, <<c, after[k][2]>> >>) >>
              ELSE << >>) \o price_entries(before, after, tick, id, k + 1)

\* Lines 87-104.
RECURSIVE prices_loop(_, _, _)
prices_loop(u, log, i) ==
    IF i > Len(u.world_order) THEN [state |-> u, log |-> log, raised |-> FALSE]
    ELSE LET id == u.world_order[i]
             w == u.worlds[id]
             res == update_prices(w)
         IN  IF w.market # None
             THEN IF res.raised
                  THEN [state |-> [u EXCEPT !.worlds[id] = res.world], log |-> log,
                        raised |-> TRUE]
                  ELSE prices_loop(
                         [u EXCEPT !.worlds[id] = res.world],
                         log \o price_entries(w.market.prices, res.world.market.prices,
                                              u.tick, id, 1),
                         i + 1)
             ELSE prices_loop(
                    u, Append(log, Entry("economy.prices", u.tick, id, 0, << >>)),
                    i + 1)

prices_stage(r) ==
    LET res == prices_loop(r.state, r.log, 1)
    IN  IF res.raised THEN raise(r, res.state) ELSE completed(r, res.state, res.log)

\* Lines 106-108.
factions_stage(r) ==
    LET res == apply_faction_actions(r.state)
    IN  IF res.raised THEN raise(r, res.state)
        ELSE completed(r, res.state,
                       Append(r.log, Entry("factions.step", r.state.tick, NoId, 0, << >>)))

\* Lines 113-123: the effects of the picked events, in order, each logged.
RECURSIVE effects_loop(_, _, _, _, _)
effects_loop(u, log, picked, i, j) ==
    IF i > Len(picked) THEN [state |-> u, log |-> log, raised |-> FALSE]
    ELSE IF j > Len(u.event_registry[picked[i].event].effects)
         THEN effects_loop(u, log, picked, i + 1, 1)
    ELSE LET res == apply_effect(u.event_registry[picked[i].event].effects[j],
                                 picked[i].world_id, u)
         IN  IF res.raised THEN [state |-> res.state, log |-> log, raised |-> TRUE]
             ELSE effects_loop(
                    res.state,
                    Append(log, Entry("event.triggered", u.tick, picked[i].world_id, 0,
                                      << <<u.event_registry[picked[i].event].id, j>> >>)),
                    picked, i, j + 1)

\* Lines 110-125.
events_stage(r) ==
    LET ev == generate_events(r.state, 1)
        u1 == [r.state EXCEPT !.rng = ev.rng]
        res == effects_loop(u1, r.log, ev.picked, 1, 1)
    IN  IF Len(ev.picked) = 0
        THEN completed(r, u1, Append(r.log, Entry("events.roll", r.state.tick, NoId,
                                                  0, << >>)))
        ELSE IF res.raised THEN raise(r, res.state)
        ELSE completed(r, res.state, res.log)

\* step is entered: a fresh AuditLog.
begin_step(r) ==
    [r EXCEPT !.pc = StageOrder[1], !.log = << >>, !.report = None,
              !.raised = FALSE, !.entry = r.state, !.done = << >>,
              !.departed = << >>, !.calls = @ + 1]

\* The return of a report that carries the tick before the increment.
end_step_stale_tick(r) ==
    [r EXCEPT !.state.tick = @ + 1,
              !.report = [tick |-> r.state.tick, log |-> r.log],
              !.log = << >>, !.pc = "idle"]

\* Lines 127-130: the tick is incremented and the report returned.
end_step(r) ==
    [r EXCEPT !.state.tick = @ + 1,
              !.report = [tick |-> r.state.tick + 1, log |-> r.log],
              !.log = << >>, !.pc = "idle"]

\* The stage (or the return) that is due in a call in progress.
advance(r) ==
    CASE r.pc = "consumption" -> consumption_stage(r)
      [] r.pc = "production" -> production_stage(r)
      [] r.pc = "trade" -> trade_stage(r)
      [] r.pc = "prices" -> prices_stage(r)
      [] r.pc = "factions" -> factions_stage(r)
      [] r.pc = "events" -> events_stage(r)
      [] r.pc = "end" -> end_step(r)

-----------------------------------------------------------------------------
(* Direct calls of the caller between two steps.  The run then describes   *)
(* that call: no stage, no report, the state it started from.              *)

direct_call(r, u) ==
    [r EXCEPT !.state = u, !.log = << >>, !.report = None, !.raised = FALSE,
              !.entry = r.state, !.done = << >>, !.departed = << >>,
              !.calls = @ + 1]

call_apply_upkeep(r, id) ==
    direct_call(r, [r.state EXCEPT !.worlds[id] = apply_upkeep(@)])

call_aid_world(r, id) ==
    direct_call(r, [r.state EXCEPT !.worlds[id] = aid_world(@)])

-----------------------------------------------------------------------------
(* The universes the runs start from: world/model.py, core/state.py and    *)
(* the component dataclasses, with the scenario of the tests (an exporter  *)
(* A joined by one lane each to a populated, industrial world B and to a   *)
(* third world C).                                                         *)

\* Bounds of the exploration.
MaxCalls == 2
MaxSeed == 2

Market(inventory, prices, targets) ==
    [inventory |-> inventory, prices |-> prices, targets |-> targets,
     price_change_factor |-> 10, min_price_multiplier |-> 50,
     max_price_multiplier |-> 200]

Population(size, needs, food_rate, cg_rate, energy_rate) ==
    [size |-> size, growth_rate |-> 1, needs |-> needs,
     food_required_per_capita_per_tick |-> food_rate,
     consumer_goods_required_per_capita_per_tick |-> cg_rate,
     consumer_goods_excess_burn_rate |-> 50,
     energy_upkeep_per_capita_per_tick |-> energy_rate]

Industry(caps) == [caps |-> caps]

WorldFactionState(influence, control, gain, loss) ==
    [influence |-> influence, garrison |-> << >>, control |-> control,
     control_threshold_gain |-> gain, control_threshold_loss |-> loss]

World(stability, prosperity, scarcity, unrest, tags, market, population, industry, factions) ==
    [stability |-> stability, prosperity |-> prosperity, tech |-> PS,
     tags |-> tags, scarcity |-> scarcity, unrest |-> unrest,
     food_balance |-> 0, starvation_level |-> 0,
     consumer_goods_balance |-> 0, consumer_goods_shortage_level |-> 0,
     market |-> market, population |-> population, industry |-> industry,
     factions |-> factions]

Lane(a, b, distance, hazard, capacity) ==
    [a |-> a, b |-> b, distance |-> distance, hazard |-> hazard,
     capacity |-> capacity]

Faction(id, traits) == [id |-> id, traits |-> traits, capital_world_id |-> NoId]

\* The exporter: a market only, food and minerals priced below base.
WorldA(trading) ==
    World(PS, PS, 0, 0, {}, 
          Market(<< <<"food", 12 * QS>>, <<"minerals", 8 * QS>> >>,
                 IF trading
                 THEN << <<"food", 8 * PrS>>, <<"minerals", 4 * PrS>> >>
                 ELSE << >>,
                 << >>),
          None, None, None)

\* The populated world: 100 heads that eat one quantum each, an industry
\* whose second recipe may be unknown to the registry, a price of consumer
\* goods above its upper bound.
WorldB(food, stressed, ghost, trading) ==
    World(IF stressed THEN 30 ELSE PS, IF stressed THEN 5 ELSE PS,
          IF stressed THEN 995 ELSE 0, IF stressed THEN 990 ELSE 0, {"agri"},
          Market(<< <<"food", food>>, <<"consumer_goods", 30 * QS>>,
                    <<"minerals", 6 * QS>>, <<"energy", 12 * QS + 1>> >>,
                 IF trading
                 THEN << <<"food", 15 * PrS>>, <<"consumer_goods", 100 * PrS>>,
                         <<"minerals", 5 * PrS>> >>
                 ELSE << >>,
                 << <<"energy", 0>> >>),
          Population(100, << <<"energy", 1>> >>, 1, 1, 1),
          Industry(IF ghost
                   THEN << <<"farm_food", 10>>, <<"ghost", 10>> >>
                   ELSE << <<"farm_food", 10>>, <<"refine_consumer_goods", 20>> >>),
          WorldFactionState(<< >>, NoId, 700, 400))

\* The third world: a market with high prices, or no component at all.
WorldC(market, trading) ==
    World(PS, PS, 0, 0, {}, 
          IF market
          THEN Market(<< >>,
                      IF trading
                      THEN << <<"food", 15 * PrS>>, <<"minerals", 7 * PrS>> >>
                      ELSE << >>,
                      << >>)
          ELSE None,
          None, None, None)

Universe(seed, entropy, food, stressed, ghost, c_market, trading, faction, events) ==
    [seed |-> seed, tick |-> 0, rng |-> get_seeded_rng(seed, entropy),
     world_order |-> <<"A", "B", "C">>,
     worlds |-> [id \in {"A", "B", "C"} |->
                   CASE id = "A" -> WorldA(trading)
                     [] id = "B" -> WorldB(food, stressed, ghost, trading)
                     [] id = "C" -> WorldC(c_market, trading)],
     lane_order |-> <<"L1", "L2">>,
     lanes |-> [id \in {"L1", "L2"} |->
                  IF id = "L1" THEN Lane("A", "B", 10, 0, 10 * QS)
                  ELSE Lane("A", "C", 10, 600, 10 * QS)],
     factions |-> IF faction THEN << Faction("f1", {"expansionist"}) >> ELSE << >>,
     event_registry |-> IF events THEN EventRegistry ELSE << >>,
     active_shipments |-> << >>,
     used_capacity |-> << >>, plain_dicts |-> FALSE]

Run(u) ==
    [state |-> u, pc |-> "idle", log |-> << >>, report |-> None,
     raised |-> FALSE, entry |-> u, done |-> << >>, calls |-> 0,
     departed |-> << >>]

InitUniverses ==
    {Universe(seed, entropy, food, stressed, ghost, c_market, trading, faction,
              events) :
        seed \in 0..MaxSeed, entropy \in 0..1, food \in {0, 5 * QS, 50 * QS},
        stressed \in BOOLEAN, ghost \in BOOLEAN, c_market \in BOOLEAN,
        trading \in BOOLEAN, faction \in BOOLEAN, events \in BOOLEAN}

Init ==
    /\ sim \in {Run(u) : u \in InitUniverses}
    /\ twin = None

StepBegin ==
    /\ sim.pc = "idle"
    /\ sim.calls < MaxCalls
    /\ sim' = begin_step(sim)
    /\ UNCHANGED twin

Consumption ==
    /\ sim.pc = "consumption"
    /\ sim' = consumption_stage(sim)
    /\ UNCHANGED twin

Production ==
    /\ sim.pc = "production"
    /\ sim' = production_stage(sim)
    /\ UNCHANGED twin

Trade ==
    /\ sim.pc = "trade"
    /\ sim' = trade_stage(sim)
    /\ UNCHANGED twin

Prices ==
    /\ sim.pc = "prices"
    /\ sim' = prices_stage(sim)
    /\ UNCHANGED twin

Factions ==
    /\ sim.pc = "factions"
    /\ sim' = factions_stage(sim)
    /\ UNCHANGED twin

Events ==
    /\ sim.pc = "events"
    /\ sim' = events_stage(sim)
    /\ UNCHANGED twin

StepEnd ==
    /\ sim.pc = "end"
    /\ sim' = end_step(sim)
    /\ UNCHANGED twin

ApplyUpkeep ==
    /\ sim.pc = "idle"
    /\ sim.calls < MaxCalls
    /\ \E id \in DOMAIN sim.state.worlds : sim' = call_apply_upkeep(sim, id)
    /\ UNCHANGED twin

AidWorld ==
    /\ sim.pc = "idle"
    /\ sim.calls < MaxCalls
    /\ \E id \in DOMAIN sim.state.worlds : sim' = call_aid_world(sim, id)
    /\ UNCHANGED twin

Next ==
    \/ StepBegin
    \/ Consumption
    \/ Production
    \/ Trade
    \/ Prices
    \/ Factions
    \/ Events
    \/ StepEnd
    \/ ApplyUpkeep
    \/ AidWorld

Spec == Init /\ [][Next]_vars

-----------------------------------------------------------------------------
(* The claims about a run of step.                                         *)

WorldIds == DOMAIN sim.state.worlds

Range(q) == {q[i] : i \in 1..Len(q)}

\* C1: in every state reached by steps (and direct calls) from an initial
\* state without negative quantities, every commodity quantity of every
\* world's market inventory is at least zero.
C1InventoryNonNegative ==
    \A id \in WorldIds :
        LET w == sim.state.worlds[id]
        IN  w.market # None =>
                \A i \in 1..Len(w.market.inventory) : w.market.inventory[i][2] >= 0

\* C1 witness: the population of B asked for more food than the market
\* held, the removal was clamped and the food entry is gone.
C1Witness ==
    /\ "consumption" \in Range(sim.done)
    /\ sim.state.worlds["B"].starvation_level > 0
    /\ InvGet(sim.entry.worlds["B"].market.inventory, "food") > 0
    /\ C1InventoryNonNegative

Pressures(w) ==
    {w.stability, w.prosperity, w.unrest, w.scarcity, w.starvation_level,
     w.consumer_goods_shortage_level}

\* C2: after every stage of every step, after apply_upkeep, aid_world and
\* every event effect, the stability, prosperity, unrest, scarcity,
\* starvation_level and consumer_goods_shortage_level of every world lie
\* in [0, 1].
C2PressuresBounded ==
    \A id \in WorldIds : \A p \in Pressures(sim.state.worlds[id]) : 0 <= p /\ p <= PS

\* C2 witness: a food shortage on a world whose unrest was 0.99 has pushed
\* the unrest to the upper bound, where it was clamped.
C2Witness ==
    /\ "consumption" \in Range(sim.done)
    /\ sim.entry.worlds["B"].unrest = 990
    /\ sim.state.worlds["B"].starvation_level > 0
    /\ sim.state.worlds["B"].unrest = PS

RECURSIVE LaneLoad(_, _, _)
LaneLoad(ships, lane_id, i) ==
    IF i > Len(ships) THEN 0
    ELSE (IF ships[i].lane_id = lane_id THEN ships[i].quantity ELSE 0)
            + LaneLoad(ships, lane_id, i + 1)

\* C4: for every lane and every call of process_trade, the quantities of
\* the shipments the call adds to active_shipments on that lane sum to at
\* most the capacity of the lane.
C4CapacityRespected ==
    \A l \in DOMAIN sim.state.lanes :
        LaneLoad(sim.departed, l, 1) <= sim.state.lanes[l].capacity

PriceInBounds(m, c, price) ==
    /\ base_price(c) * m.min_price_multiplier <= 100 * price
    /\ 100 * price <= base_price(c) * m.max_price_multiplier

\* C6: once update_prices has run on a world with a market, up to the end
\* of the step and beyond, every price of that market lies between the base
\* price times the minimum and times the maximum multiplier, whatever the
\* prices, inventory and targets were before.
C6PriceBounds ==
    "prices" \in Range(sim.done) =>
        \A id \in WorldIds :
            LET m == sim.state.worlds[id].market
            IN  m # None =>
                    /\ Commodities \subseteq DKeys(m.prices)
                    /\ \A i \in 1..Len(m.prices) :
                           PriceInBounds(m, m.prices[i][1], m.prices[i][2])

\* C6 witness: a price that stood at five times its base and a commodity
\* with a target of zero have gone through the update.
C6Witness ==
    /\ "prices" \in Range(sim.done)
    /\ DGet(sim.entry.worlds["B"].market.prices, "consumer_goods", 0)
           > 2 * base_price("consumer_goods")
    /\ DGet(sim.state.worlds["B"].market.targets, "energy", 1) = 0
    /\ DGet(sim.state.worlds["B"].market.prices, "consumer_goods", 0)
           = 2 * base_price("consumer_goods")

\* C7: a step that succeeds increments the tick by exactly one, and only
\* after the six stages; its report carries the incremented tick and a log
\* whose entries were all made by this call, stamped with the tick before
\* the increment.
C7TickAndReport ==
    /\ sim.pc # "idle" => sim.state.tick = sim.entry.tick /\ sim.report = None
    /\ sim.report # None =>
           /\ ~sim.raised
           /\ sim.done = <<"consumption", "production", "trade", "prices",
                           "factions", "events">>
           /\ sim.state.tick = sim.entry.tick + 1
           /\ sim.report.tick = sim.state.tick
           /\ Len(sim.report.log) > 0
           /\ \A i \in 1..Len(sim.report.log) :
                  sim.report.log[i].tick = sim.entry.tick

\* C7 witness: the second successful step has returned its report.
C7Witness ==
    /\ sim.report # None
    /\ sim.report.tick = 2
    /\ sim.pc = "idle"

\* The stage an audit entry belongs to, by its type.
StageOfEntry(type) ==
    CASE type \in {"economy.consumption", "economy.consumption.impact"} -> 1
      [] type \in {"economy.production", "economy.production.output"} -> 2
      [] type \in {"economy.trade", "economy.trade.new_shipments",
                   "economy.trade.arrivals"} -> 3
      [] type \in {"economy.prices", "economy.prices.update"} -> 4
      [] type = "factions.step" -> 5
      [] type \in {"events.roll", "event.triggered"} -> 6

PricesOf(u) ==
    [id \in DOMAIN u.worlds |->
        IF u.worlds[id].market = None THEN << >> ELSE u.worlds[id].market.prices]

CurrentLog == IF sim.report # None THEN sim.report.log ELSE sim.log

\* C8: within a step the stages run in the order consumption, production,
\* trade, price update, faction actions, event roll, each for all worlds
\* before the next, and the audit entries appear in that order; until the
\* price update of the step has run, and so while the trade candidates
\* are computed, the prices are those the step started with.
C8StageOrder ==
    /\ sim.done = SubSeq(<<"consumption", "production", "trade", "prices",
                           "factions", "events">>, 1, Len(sim.done))
    /\ \A i, j \in 1..Len(CurrentLog) :
           i < j => StageOfEntry(CurrentLog[i].type) <= StageOfEntry(CurrentLog[j].type)
    /\ \A i \in 1..Len(sim.log) : StageOfEntry(sim.log[i].type) <= Len(sim.done)
    /\ "prices" \notin Range(sim.done) => PricesOf(sim.state) = PricesOf(sim.entry)

\* C8 witness: a step has run all its stages, its trade stage sent
\* shipments off and its log holds entries of the first and the last stage.
C8Witness ==
    /\ sim.pc = "end"
    /\ Len(sim.done) = 6
    /\ Len(sim.departed) > 0
    /\ \E i, j \in 1..Len(sim.log) :
           StageOfEntry(sim.log[i].type) = 1 /\ StageOfEntry(sim.log[j].type) = 6

\* C9: a step that fails leaves the UniverseState exactly as it was before
\* the call.
C9Atomic ==
    sim.raised => sim.state = sim.entry

\* C9 as amended: a step that fails returns no report and does not
\* increment the tick.
C9FailureKeepsTick ==
    sim.raised =>
        /\ sim.pc = "idle"
        /\ sim.report = None
        /\ sim.state.tick = sim.entry.tick

\* C9 witness: the step failed in the production stage on the unknown
\* recipe of B, and what consumption did to B before is still there.
C9Witness ==
    /\ sim.raised
    /\ sim.done = <<"consumption">>
    /\ sim.state.tick = sim.entry.tick
    /\ sim.state.worlds["B"].population.size # sim.entry.worlds["B"].population.size

\* The component a stage needs is absent on a world.
Lacks(stage, w) ==
    CASE stage = "consumption" -> w.population = None \/ w.market = None
      [] stage = "production" -> w.industry = None \/ w.market = None
      [] stage = "prices" -> w.market = None
      [] stage = "factions" -> w.factions = None

\* The type of the entry that explains the no-op of a stage.
Explanation(stage) ==
    CASE stage = "consumption" -> "economy.consumption"
      [] stage = "production" -> "economy.production"
      [] stage = "prices" -> "economy.prices"
      [] stage = "factions" -> "factions.step"

\* The stage that is due leaves every world without its component as it
\* is, fails only if some world has the component, and, when it completes,
\* has logged an explanatory entry with the world's id and the tick.
NoOpLogged(stage) ==
    sim.pc = stage =>
        \A id \in WorldIds :
            Lacks(stage, sim.state.worlds[id]) =>
                /\ sim'.state.worlds[id] = sim.state.worlds[id]
                /\ sim'.raised => \E other \in WorldIds :
                                      ~Lacks(stage, sim.state.worlds[other])
                /\ ~sim'.raised =>
                       \E i \in 1..Len(sim'.log) :
                           /\ sim'.log[i].type = Explanation(stage)
                           /\ sim'.log[i].world_id = id
                           /\ sim'.log[i].tick = sim.state.tick

\* C10: for every world that lacks the component a stage needs (Population
\* or Market for consumption, Industry or Market for production, Market
\* for the price update, faction state for faction actions) the stage
\* raises no error, changes nothing in that world and logs an explanatory
\* entry carrying that world's id.
C10MissingComponent ==
    [][/\ NoOpLogged("consumption")
       /\ NoOpLogged("production")
       /\ NoOpLogged("prices")
       /\ NoOpLogged("factions")]_vars

\* C10 as amended: the same for consumption, production and the price
\* update; the faction stage, when it completes, has logged the one entry
\* "factions.step", which carries no world id, and has changed no world.
C10MissingComponentLogged ==
    [][/\ NoOpLogged("consumption")
       /\ NoOpLogged("production")
       /\ NoOpLogged("prices")
       /\ (sim.pc = "factions" /\ ~sim'.raised) =>
              /\ sim'.state.worlds = sim.state.worlds
              /\ Len(sim'.log) = Len(sim.log) + 1
              /\ sim'.log[Len(sim'.log)].type = "factions.step"
              /\ sim'.log[Len(sim'.log)].world_id = NoId]_vars

\* C10 witness: a step has run its first four stages over A, which has no
\* population and no industry, and over C, which has nothing; the log
\* explains each no-op with the world's id and both worlds are untouched
\* but for the prices A's market was given.
C10Witness ==
    /\ sim.pc = "factions"
    /\ sim.state.worlds["C"] = sim.entry.worlds["C"]
    /\ sim.state.worlds["C"].market = None
    /\ \A st \in {"consumption", "production", "prices"} :
           \E i \in 1..Len(sim.log) :
               sim.log[i].type = Explanation(st) /\ sim.log[i].world_id = "C"
    /\ \A st \in {"consumption", "production"} :
           \E i \in 1..Len(sim.log) :
               sim.log[i].type = Explanation(st) /\ sim.log[i].world_id = "A"

-----------------------------------------------------------------------------
(* Two universes built alike and stepped side by side.                     *)

InitDet ==
    \E seed \in 0..MaxSeed, e1 \in 0..1, e2 \in 0..1, food \in {0, 50 * QS},
       stressed \in BOOLEAN, ghost \in BOOLEAN, faction \in BOOLEAN,
       events \in BOOLEAN :
        /\ sim = Run(Universe(seed, e1, food, stressed, ghost, TRUE, TRUE, faction,
                              events))
        /\ twin = Run(Universe(seed, e2, food, stressed, ghost, TRUE, TRUE, faction,
                               events))

\* The next move of a run: step is called, or the call in progress goes on.
proceed(r) == IF r.pc = "idle" THEN begin_step(r) ELSE advance(r)

SimProceeds ==
    /\ sim.pc = "idle" => sim.calls < MaxCalls
    /\ sim' = proceed(sim)
    /\ UNCHANGED twin

TwinProceeds ==
    /\ twin.pc = "idle" => twin.calls < MaxCalls
    /\ twin' = proceed(twin)
    /\ UNCHANGED sim

NextDet ==
    \/ SimProceeds
    \/ TwinProceeds

SpecDet == InitDet /\ [][NextDet]_vars

\* C3: two universes built with the same seed and the same content, taken
\* through the same number of step calls (and the same stages of the call
\* in progress), have the same state, generator included, the same log and
\* the same report, and failed alike.
C3Deterministic ==
    (sim.calls = twin.calls /\ sim.pc = twin.pc) =>
        /\ sim.state = twin.state
        /\ sim.log = twin.log
        /\ sim.report = twin.report
        /\ sim.raised = twin.raised

\* C3 witness: both universes have made two steps, events were drawn from
\* the generator in each, and they agree.
C3Witness ==
    /\ sim.calls = 2 /\ twin.calls = 2
    /\ sim.pc = "idle" /\ twin.pc = "idle"
    /\ sim.report # None /\ twin.report # None
    /\ sim.state.rng # sim.entry.rng
    /\ \E i \in 1..Len(sim.report.log) : sim.report.log[i].type = "event.triggered"
    /\ sim.report = twin.report
    /\ sim.state = twin.state

-----------------------------------------------------------------------------
(* The control of one world under expand_influence and resolve_control.    *)

\* Bound on the calls made on the world.
MaxControlCalls == 2

FactionIds == {"f1", "f2"}
InfluenceLevels == {300, 400, 600, 700}

\* The influence dicts: none, one or both factions, in either order.
InfluenceDicts ==
    {<< >>}
      \cup {<< <<f, v>> >> : f \in FactionIds, v \in InfluenceLevels}
      \cup UNION {{<< <<f, v>>, <<g, x>> >> :
                      g \in FactionIds \ {f},
                      v \in InfluenceLevels, x \in InfluenceLevels} :
                   f \in FactionIds}

ControlRun(fs) ==
    [world |-> World(PS, PS, 0, 0, {}, None, None, None, fs),
     prev_control |-> fs.control, calls |-> 0]

InitControl ==
    /\ \E influence \in InfluenceDicts, control \in FactionIds \cup {NoId},
          thresholds \in {<<700, 400>>, <<300, 500>>} :
           sim = ControlRun(WorldFactionState(influence, control,
                                              thresholds[1], thresholds[2]))
    /\ twin = None

ExpandInfluence ==
    /\ sim.calls < MaxControlCalls
    /\ \E f \in FactionIds :
           sim' = [world |-> expand_influence(sim.world, f),
                   prev_control |-> sim.world.factions.control,
                   calls |-> sim.calls + 1]
    /\ UNCHANGED twin

ResolveControl ==
    /\ sim.calls < MaxControlCalls
    /\ sim' = [world |-> [sim.world EXCEPT !.factions = resolve_control(@)],
               prev_control |-> sim.world.factions.control,
               calls |-> sim.calls + 1]
    /\ UNCHANGED twin

NextControl ==
    \/ ExpandInfluence
    \/ ResolveControl

SpecControl == InitControl /\ [][NextControl]_vars

InfluenceOf(fs, f) == DGet(fs.influence, f, 0)

\* C5: a resolve_control call changes the control from a faction X to
\* another faction Y only when influence[Y] >= control_threshold_gain and
\* influence[X] < control_threshold_loss; from no controller to F only when
\* F has the maximal influence and influence[F] >= control_threshold_gain;
\* and a controller that is still the faction of maximal influence keeps
\* the control whatever its influence.
C5Hysteresis ==
    LET fs == sim.world.factions
        old == sim.prev_control
        new == fs.control
    IN  sim.calls > 0 =>
            /\ (old # NoId /\ new # NoId /\ new # old) =>
                   /\ InfluenceOf(fs, new) >= fs.control_threshold_gain
                   /\ InfluenceOf(fs, old) < fs.control_threshold_loss
            /\ (old = NoId /\ new # NoId) =>
                   /\ DHas(fs.influence, new)
                   /\ \A f \in DKeys(fs.influence) :
                          InfluenceOf(fs, f) <= InfluenceOf(fs, new)
                   /\ InfluenceOf(fs, new) >= fs.control_threshold_gain
            /\ (old # NoId /\ DHas(fs.influence, old)
                  /\ \A i \in 1..Len(fs.influence) :
                         \/ fs.influence[i][2] < InfluenceOf(fs, old)
                         \/ /\ fs.influence[i][2] = InfluenceOf(fs, old)
                            /\ DIdx(fs.influence, old) <= i) =>
                   new = old

\* C5 witness: the control has gone from f1, whose influence is below the
\* loss threshold, to f2, whose influence is at the gain threshold.
C5Witness ==
    /\ sim.calls > 0
    /\ sim.prev_control = "f1"
    /\ sim.world.factions.control = "f2"
    /\ InfluenceOf(sim.world.factions, "f1") < sim.world.factions.control_threshold_loss
    /\ InfluenceOf(sim.world.factions, "f2") >= sim.world.factions.control_threshold_gain

-----------------------------------------------------------------------------
(* Calls of build_candidate_trades and process_trade on a two-world        *)
(* universe, the tick advancing between calls as step advances it.         *)

MaxTradeTick == 3
MaxTradeCalls == 4

\* The states of the universe before and after each candidate of a call of
\* process_trade: trace[1] is the state after the tracker's reset,
\* trace[i + 1] the state after candidate i.
RECURSIVE ship_trace(_, _, _)
ship_trace(u, cands, i) ==
    IF i > Len(cands) THEN <<u>>
    ELSE <<u>> \o ship_trace(ship_candidate(u, cands[i]), cands, i + 1)

\* One side of the lane sells food and minerals below base, the other
\* buys them above base.
TradeWorld(cheap, food, minerals, targets) ==
    World(PS, PS, 0, 0, {},
          Market(<< <<"food", food>>, <<"minerals", minerals>> >>,
                 IF cheap
                 THEN << <<"food", 8 * PrS>>, <<"minerals", 4 * PrS>> >>
                 ELSE << <<"food", 15 * PrS>>, <<"minerals", 7 * PrS>> >>,
                 targets),
          None, None, None)

TradeUniverse(a_cheap, source_food, dest_food, dest_targets, distance, capacity) ==
    [seed |-> 0, tick |-> 0, rng |-> get_seeded_rng(0, 0),
     world_order |-> <<"A", "B">>,
     worlds |-> [id \in {"A", "B"} |->
                   IF (id = "A") = a_cheap
                   THEN TradeWorld(TRUE, source_food, 8 * QS, << >>)
                   ELSE TradeWorld(FALSE, dest_food, 0, dest_targets)],
     lane_order |-> <<"L1">>,
     lanes |-> [id \in {"L1"} |-> Lane("A", "B", distance, 0, capacity)],
     factions |-> << >>,
     event_registry |-> << >>,
     active_shipments |-> << >>,
     used_capacity |-> << >>, plain_dicts |-> FALSE]

InitTrade ==
    /\ \E a_cheap \in BOOLEAN, source_food \in {0, 4 * QS, 25 * QS},
          dest_food \in {0, 6 * QS},
          dest_targets \in {<< >>, << <<"food", 3 * QS>> >>,
                            << <<"food", 20 * QS>> >>},
          distance \in {5, 10, 15, 25},
          capacity \in {5 * QS, 15 * QS, 100 * QS} :
           LET u == TradeUniverse(a_cheap, source_food, dest_food,
                                  dest_targets, distance, capacity)
           IN  sim = [state |-> u, before |-> u, built |-> FALSE,
                      cands |-> << >>, trace |-> <<u>>,
                      new_shipments |-> << >>, created |-> << >>,
                      arrived |-> << >>, called |-> FALSE, calls |-> 0]
    /\ twin = None

\* candidates = build_candidate_trades(state): the state is only read.
BuildCandidateTrades ==
    /\ ~sim.built
    /\ sim' = [sim EXCEPT !.built = TRUE,
                          !.cands = build_candidate_trades(sim.state)]
    /\ UNCHANGED twin

\* arrived = process_trade(state, allow_new_trades)
ProcessTrade ==
    /\ sim.calls < MaxTradeCalls
    /\ \E allow_new_trades \in BOOLEAN :
           LET u0 == [sim.state EXCEPT !.used_capacity = << >>]
               res == process_trade(sim.state, allow_new_trades)
           IN  sim' = [state |-> res.state, before |-> sim.state,
                       built |-> FALSE, cands |-> << >>,
                       new_shipments |-> IF allow_new_trades
                                         THEN build_candidate_trades(u0)
                                         ELSE << >>,
                       trace |-> IF allow_new_trades
                                 THEN ship_trace(u0, build_candidate_trades(u0), 1)
                                 ELSE <<u0>>,
                       created |-> IF allow_new_trades
                                   THEN departures(sim.state) ELSE << >>,
                       arrived |-> res.arrived, called |-> TRUE,
                       calls |-> sim.calls + 1]
    /\ UNCHANGED twin

\* The tick advances once process_trade has run at the current tick.
TickTrade ==
    /\ sim.called
    /\ sim.state.tick < MaxTradeTick
    /\ sim' = [sim EXCEPT !.state.tick = @ + 1, !.built = FALSE,
                          !.cands = << >>, !.called = FALSE]
    /\ UNCHANGED twin

NextTrade ==
    \/ BuildCandidateTrades
    \/ ProcessTrade
    \/ TickTrade

SpecTrade == InitTrade /\ [][NextTrade]_vars

Count(seq, x) == Cardinality({i \in 1..Len(seq) : seq[i] = x})

RECURSIVE TotalQuantity(_)
TotalQuantity(ships) ==
    IF ships = << >> THEN 0
    ELSE Head(ships).quantity + TotalQuantity(Tail(ships))

\* The integer nearest to a distance held in tenths, the even one of two
\* that are equally near.
NearestInt(d) ==
    CHOOSE n \in 0..(d \div 10 + 1) :
        LET gap == IF 10 * n >= d THEN 10 * n - d ELSE d - 10 * n
        IN  gap < 5 \/ (gap = 5 /\ n % 2 = 0)

\* The quantity of commodity c that the shipments of a list which are due
\* at a tick carry to world w, and the quantity the list takes from w.
DueInto(ships, w, c, tick) ==
    TotalQuantity(SelectSeq(ships, LAMBDA s : /\ s.destination_world_id = w
                                              /\ s.commodity_id = c
                                              /\ s.eta_tick <= tick))
TakenFrom(ships, w, c) ==
    TotalQuantity(SelectSeq(ships, LAMBDA s : /\ s.source_world_id = w
                                              /\ s.commodity_id = c))

\* C11: a shipment created by process_trade at tick t on a lane of distance
\* d has eta_tick = t + round(d); the call of process_trade at that tick,
\* and no earlier call, credits its full quantity to the destination
\* inventory once and removes it from active_shipments; every shipment whose
\* eta_tick is greater than the tick of the call stays in active_shipments
\* unchanged and credits nothing.
C11Delivery ==
    LET b == sim.before
        a == sim.state
        all == b.active_shipments \o sim.created
    IN  sim.called =>
            /\ \A i \in 1..Len(sim.created) :
                   sim.created[i].eta_tick
                       = b.tick + NearestInt(b.lanes[sim.created[i].lane_id].distance)
            /\ Range(a.active_shipments) \cup Range(sim.arrived) \subseteq Range(all)
            /\ \A s \in Range(all) :
                   IF s.eta_tick > b.tick
                   THEN /\ Count(a.active_shipments, s) = Count(all, s)
                        /\ Count(sim.arrived, s) = 0
                   ELSE /\ s.eta_tick = b.tick
                        /\ Count(a.active_shipments, s) = 0
                        /\ Count(sim.arrived, s) = Count(all, s)
            /\ \A w \in DOMAIN a.worlds, c \in Commodities :
                   LET was == InvGet(b.worlds[w].market.inventory, c)
                       now == InvGet(a.worlds[w].market.inventory, c)
                       due == DueInto(all, w, c, b.tick)
                       out == TakenFrom(sim.created, w, c)
                   IN  /\ now <= was + due
                       /\ now >= was + due - out

\* C11 witness: a call has credited a shipment created at an earlier tick
\* while a shipment created later stays in transit.
C11Witness ==
    /\ sim.called
    /\ \E s \in Range(sim.arrived) : s \in Range(sim.before.active_shipments)
    /\ sim.state.active_shipments # << >>

\* The quantity in the active shipments bound for world w and commodity c.
InTransit(u, w, c) ==
    TotalQuantity(SelectSeq(u.active_shipments,
                            LAMBDA s : /\ s.destination_world_id = w
                                       /\ s.commodity_id = c))

\* max(0, destination target - destination stock - quantity in transit),
\* the target of a commodity without one being 10.
UnmetDemand(u, w, c) ==
    LET market == u.worlds[w].market
        gap == DGet(market.targets, c, 10 * QS)
                   - InvGet(market.inventory, c) - InTransit(u, w, c)
    IN  IF gap > 0 THEN gap ELSE 0

SourceStock(u, s) == InvGet(u.worlds[s.source_world_id].market.inventory, s.commodity_id)

\* C12 as stated: every candidate returned by build_candidate_trades,
\* whichever end of the lane is its source, has quantity = min(source stock,
\* 10, unmet demand of the destination), and that quantity is not 0.
C12DeficitBothWays ==
    sim.built =>
        \A i \in 1..Len(sim.cands) :
            LET s == sim.cands[i]
            IN  /\ s.quantity > 0
                /\ s.quantity = SetMin({SourceStock(sim.state, s), 10 * QS,
                                        UnmetDemand(sim.state,
                                                    s.destination_world_id,
                                                    s.commodity_id)})

\* C12: every candidate returned by build_candidate_trades has a quantity
\* greater than 0; a candidate whose source is lane.b has quantity =
\* min(source stock, 10, unmet demand of the destination), a candidate whose
\* source is lane.a has quantity = min(source stock, 10).
C12DeficitFromB ==
    sim.built =>
        \A i \in 1..Len(sim.cands) :
            LET s == sim.cands[i]
                lane == sim.state.lanes[s.lane_id]
            IN  /\ s.quantity > 0
                /\ s.source_world_id \in {lane.a, lane.b}
                /\ s.source_world_id = lane.b =>
                       s.quantity = SetMin({SourceStock(sim.state, s), 10 * QS,
                                            UnmetDemand(sim.state,
                                                        s.destination_world_id,
                                                        s.commodity_id)})
                /\ s.source_world_id = lane.a =>
                       s.quantity = SetMin({SourceStock(sim.state, s), 10 * QS})

\* C12 witness: a candidate from lane.b is limited by the unmet demand of a
\* destination that has a shipment under way, below the source stock and
\* below 10.
C12Witness ==
    /\ sim.built
    /\ \E i \in 1..Len(sim.cands) :
           LET s == sim.cands[i]
               lane == sim.state.lanes[s.lane_id]
           IN  /\ s.source_world_id = lane.b
               /\ InTransit(sim.state, lane.a, s.commodity_id) > 0
               /\ s.quantity < SourceStock(sim.state, s)
               /\ s.quantity < 10 * QS

\* What is left of a lane's capacity in a state of the current tick.
RemainingOn(u, lane_id) ==
    LET left == u.lanes[lane_id].capacity - DGet(u.used_capacity, lane_id, 0)
    IN  IF left > 0 THEN left ELSE 0

\* C13: a candidate whose quantity exceeds the remaining capacity of its
\* lane is dropped whole by process_trade: the inventories, the active
\* shipment list and the used capacity of every lane are the same after the
\* candidate as before it, no shipment is created for it, and it is not among
\* the shipments the call leaves in active_shipments or delivers.
C13DroppedWhole ==
    sim.called =>
        \A i \in 1..Len(sim.new_shipments) :
            LET s == sim.new_shipments[i]
                pre == sim.trace[i]
                post == sim.trace[i + 1]
            IN  s.quantity > RemainingOn(pre, s.lane_id) =>
                    /\ post.worlds = pre.worlds
                    /\ post.active_shipments = pre.active_shipments
                    /\ \A l \in DOMAIN pre.lanes :
                           DGet(post.used_capacity, l, 0)
                               = DGet(pre.used_capacity, l, 0)
                    /\ Count(sim.created, s) = 0
                    /\ Count(sim.state.active_shipments \o sim.arrived, s)
                           = Count(sim.before.active_shipments, s)

\* C13 witness: a call has shipped one candidate and dropped a later one
\* that exceeded what was left of the lane, although part of it would fit.
C13Witness ==
    /\ sim.called
    /\ sim.created # << >>
    /\ \E i \in 1..Len(sim.new_shipments) :
           /\ sim.new_shipments[i].quantity
                  > RemainingOn(sim.trace[i], sim.new_shipments[i].lane_id)
           /\ RemainingOn(sim.trace[i], sim.new_shipments[i].lane_id) > 0
           /\ sim.trace[i + 1].active_shipments = sim.trace[i].active_shipments

-----------------------------------------------------------------------------
(* Calls of generate_events with max_events_per_tick of 1 and more.        *)

MaxEventsPerTick == 3
MaxEventCalls == 3

InitEvents ==
    /\ \E seed \in 0..MaxSeed, entropy \in 0..1, food \in {0, 50 * QS},
          stressed \in BOOLEAN, c_market \in BOOLEAN :
           sim = [state |-> Universe(seed, entropy, food, stressed, FALSE,
                                     c_market, TRUE, FALSE, TRUE),
                  k |-> 0, picked |-> << >>, calls |-> 0]
    /\ twin = None

\* selected = generate_events(state, k): the draws advance state.rng.
GenerateEvents ==
    /\ sim.calls < MaxEventCalls
    /\ \E k \in 1..MaxEventsPerTick :
           LET ev == generate_events(sim.state, k)
           IN  sim' = [state |-> [sim.state EXCEPT !.rng = ev.rng], k |-> k,
                       picked |-> ev.picked, calls |-> sim.calls + 1]
    /\ UNCHANGED twin

NextEvents == GenerateEvents

SpecEvents == InitEvents /\ [][NextEvents]_vars

\* C14: generate_events(state, k) returns at most k (event, world) pairs,
\* each of a final weight greater than 0, and no (event, world) pair occurs
\* twice in the returned list, for every k >= 1.
C14DistinctPairs ==
    sim.calls > 0 =>
        /\ Len(sim.picked) <= sim.k
        /\ \A i \in 1..Len(sim.picked) : sim.picked[i].weight > 0
        /\ \A i, j \in 1..Len(sim.picked) :
               (i # j) => \/ sim.picked[i].event # sim.picked[j].event
                          \/ sim.picked[i].world_id # sim.picked[j].world_id

-----------------------------------------------------------------------------
(* io/save_load.py: a snapshot of a UniverseState and the state rebuilt    *)
(* from it.  A key that to_dict leaves out of a dict is None here.         *)

\* The per-capita rates of a Population built without them (0.0001 a head):
\* less than one quantum a head, none at the model's resolution.
DefaultPerCapitaRate == 0

\* Lines 22-56: the dict of one world.
world_to_dict(id, w) ==
    [id |-> id, stability |-> w.stability, prosperity |-> w.prosperity,
     tech |-> w.tech, tags |-> w.tags, scarcity |-> w.scarcity,
     unrest |-> w.unrest,
     market |-> IF w.market = None THEN None
                ELSE [inventory |-> w.market.inventory,
                      prices |-> w.market.prices,
                      targets |-> w.market.targets],
     population |-> IF w.population = None THEN None
                    ELSE [size |-> w.population.size,
                          growth_rate |-> w.population.growth_rate,
                          needs |-> w.population.needs],
     industry |-> IF w.industry = None THEN None
                  ELSE [caps |-> w.industry.caps],
     factions |-> IF w.factions = None THEN None
                  ELSE [influence |-> w.factions.influence,
                        garrison |-> w.factions.garrison,
                        control |-> w.factions.control,
                        control_threshold_gain |-> w.factions.control_threshold_gain,
                        control_threshold_loss |-> w.factions.control_threshold_loss]]

\* to_dict(state)
to_dict(u) ==
    [seed |-> u.seed, tick |-> u.tick,
     worlds |-> [i \in 1..Len(u.world_order) |->
                   world_to_dict(u.world_order[i], u.worlds[u.world_order[i]])],
     lanes |-> [i \in 1..Len(u.lane_order) |->
                  [id |-> u.lane_order[i]] @@ u.lanes[u.lane_order[i]]],
     active_shipments |-> u.active_shipments,
     lane_capacity_tracker |-> u.used_capacity,
     factions |-> [i \in 1..Len(u.factions) |->
                     [id |-> u.factions[i].id, traits |-> u.factions[i].traits]],
     event_registry |-> u.event_registry]

\* Lines 136-138: the quantities are added to a new Inventory one by one.
RECURSIVE inventory_from_dict(_, _)
inventory_from_dict(entries, i) ==
    IF i = 0 THEN << >>
    ELSE add(inventory_from_dict(entries, i - 1), entries[i][1], entries[i][2])

\* Lines 133-188: the World of one dict.  What the dict does not hold takes
\* the default of the dataclass.
world_from_dict(d) ==
    [World(d.stability, d.prosperity, d.scarcity, d.unrest, d.tags,
           IF d.market = None THEN None
           ELSE Market(inventory_from_dict(d.market.inventory,
                                           Len(d.market.inventory)),
                       d.market.prices, d.market.targets),
           IF d.population = None THEN None
           ELSE [Population(d.population.size, d.population.needs,
                            DefaultPerCapitaRate, DefaultPerCapitaRate,
                            DefaultPerCapitaRate)
                   EXCEPT !.growth_rate = d.population.growth_rate],
           IF d.industry = None THEN None ELSE Industry(d.industry.caps),
           IF d.factions = None THEN None
           ELSE [WorldFactionState(d.factions.influence, d.factions.control,
                                   d.factions.control_threshold_gain,
                                   d.factions.control_threshold_loss)
                   EXCEPT !.garrison = d.factions.garrison])
       EXCEPT !.tech = d.tech]

\* UniverseState.__post_init__ loads data/events.yaml into the registry it
\* was given: an event of the file replaces the one of the same id and is
\* appended otherwise.
RECURSIVE load_from_yaml(_, _)
load_from_yaml(registry, i) ==
    IF i = 0 THEN registry
    ELSE LET loaded == load_from_yaml(registry, i - 1)
             e == EventRegistry[i]
         IN  IF \E k \in 1..Len(loaded) : loaded[k].id = e.id
             THEN [k \in 1..Len(loaded) |->
                     IF loaded[k].id = e.id THEN e ELSE loaded[k]]
             ELSE Append(loaded, e)

\* from_dict(data): the generator is seeded again, the used-capacity map and
\* the influence maps are plain dicts.
from_dict(d) ==
    [seed |-> d.seed, tick |-> d.tick, rng |-> get_seeded_rng(d.seed, 0),
     world_order |-> [i \in 1..Len(d.worlds) |-> d.worlds[i].id],
     worlds |-> [id \in {d.worlds[i].id : i \in 1..Len(d.worlds)} |->
                   world_from_dict(
                       d.worlds[CHOOSE i \in 1..Len(d.worlds) :
                                   /\ d.worlds[i].id = id
                                   /\ \A j \in (i + 1)..Len(d.worlds) :
                                          d.worlds[j].id # id])],
     lane_order |-> [i \in 1..Len(d.lanes) |-> d.lanes[i].id],
     lanes |-> [id \in {d.lanes[i].id : i \in 1..Len(d.lanes)} |->
                  LET l == d.lanes[CHOOSE i \in 1..Len(d.lanes) :
                                      /\ d.lanes[i].id = id
                                      /\ \A j \in (i + 1)..Len(d.lanes) :
                                             d.lanes[j].id # id]
                  IN  Lane(l.a, l.b, l.distance, l.hazard, l.capacity)],
     factions |-> [i \in 1..Len(d.factions) |->
                     Faction(d.factions[i].id, d.factions[i].traits)],
     event_registry |-> load_from_yaml(d.event_registry, Len(EventRegistry)),
     active_shipments |-> d.active_shipments,
     used_capacity |-> d.lane_capacity_tracker, plain_dicts |-> TRUE]

\* A run on which a snapshot may be taken and loaded back between two calls
\* of step: `original` is the state the snapshot was taken of, `load_calls`
\* the number of calls made before.
InitLoad ==
    /\ sim \in {[loaded |-> FALSE, load_calls |-> 0,
                 original |-> Universe(seed, 0, food, stressed, FALSE, c_market,
                                       trading, FALSE, events)]
                   @@ Run(Universe(seed, 0, food, stressed, FALSE, c_market,
                                   trading, FALSE, events)) :
                  seed \in 0..MaxSeed, food \in {0, 50 * QS},
                  stressed \in BOOLEAN, c_market \in BOOLEAN,
                  trading \in BOOLEAN, events \in BOOLEAN}
    /\ twin = None

\* state = from_dict(to_dict(state)), between two calls of step.
SaveLoad ==
    /\ sim.pc = "idle"
    /\ ~sim.loaded
    /\ sim' = [sim EXCEPT !.state = from_dict(to_dict(sim.state)),
                          !.loaded = TRUE, !.original = sim.state,
                          !.load_calls = sim.calls, !.raised = FALSE]
    /\ UNCHANGED twin

NextLoad ==
    \/ StepBegin
    \/ Consumption
    \/ Production
    \/ Trade
    \/ Prices
    \/ Factions
    \/ Events
    \/ StepEnd
    \/ SaveLoad

SpecLoad == InitLoad /\ [][NextLoad]_vars

\* The fields of a component that a snapshot is to bring back, None for a
\* component the world does not have.
PersistedMarket(m) ==
    IF m = None THEN None
    ELSE [inventory |-> m.inventory, prices |-> m.prices, targets |-> m.targets]
PersistedPopulation(p) ==
    IF p = None THEN None
    ELSE [size |-> p.size, growth_rate |-> p.growth_rate, needs |-> p.needs,
          food |-> p.food_required_per_capita_per_tick,
          consumer_goods |-> p.consumer_goods_required_per_capita_per_tick,
          energy |-> p.energy_upkeep_per_capita_per_tick]
PersistedWorld(w) ==
    [stability |-> w.stability, prosperity |-> w.prosperity, tech |-> w.tech,
     tags |-> w.tags, scarcity |-> w.scarcity, unrest |-> w.unrest,
     market |-> PersistedMarket(w.market),
     population |-> PersistedPopulation(w.population),
     industry |-> w.industry, factions |-> w.factions]
Persisted(u) ==
    [seed |-> u.seed, tick |-> u.tick,
     worlds |-> [id \in DOMAIN u.worlds |-> PersistedWorld(u.worlds[id])],
     lanes |-> u.lanes, active_shipments |-> u.active_shipments,
     used_capacity |-> u.used_capacity, factions |-> u.factions,
     event_registry |-> u.event_registry]

\* C15: from_dict(to_dict(s)) equals s on every persisted field: seed, tick,
\* each world's stability, prosperity, tech, tags, scarcity and unrest, its
\* market's inventory, prices and targets, its population's size, growth
\* rate, needs and per-capita food, consumer-goods and energy rates, its
\* industry caps, its faction state, all lanes, the active shipments, the
\* used-capacity map, the factions and the event registry.
C15RoundTrip ==
    (sim.loaded /\ sim.calls = sim.load_calls) =>
        Persisted(sim.state) = Persisted(sim.original)

\* C16: a call of step on from_dict(to_dict(s)), s reachable by calls of
\* step, completes without raising, also when the rebuilt state has a trade
\* candidate on some lane.
C16LoadedStepCompletes ==
    (sim.loaded /\ sim.pc = "idle" /\ sim.calls > sim.load_calls) => ~sim.raised

-----------------------------------------------------------------------------
(* Calls of Inventory.add and Inventory.remove_clamped on one inventory.   *)

MaxInventoryCalls == 3
MaxQuantity == 3

\* Inventory(): no entry.  The run keeps the inventory before the last
\* call, the call's arguments and its result.
InitInventory ==
    /\ sim = [inv |-> << >>, before |-> << >>, op |-> "new", c |-> NoId,
              q |-> 0, removed |-> 0, calls |-> 0]
    /\ twin = None

\* inventory.add(c, q), q >= 0 (a negative q raises before any change).
InventoryAdd ==
    /\ sim.calls < MaxInventoryCalls
    /\ \E c \in {"food", "minerals"}, q \in 0..MaxQuantity :
           sim' = [inv |-> add(sim.inv, c, q), before |-> sim.inv, op |-> "add",
                   c |-> c, q |-> q, removed |-> 0, calls |-> sim.calls + 1]
    /\ UNCHANGED twin

\* removed = inventory.remove_clamped(c, q), q >= 0
InventoryRemoveClamped ==
    /\ sim.calls < MaxInventoryCalls
    /\ \E c \in {"food", "minerals"}, q \in 0..MaxQuantity :
           LET res == remove_clamped(sim.inv, c, q)
           IN  sim' = [inv |-> res.inv, before |-> sim.inv,
                       op |-> "remove_clamped", c |-> c, q |-> q,
                       removed |-> res.removed, calls |-> sim.calls + 1]
    /\ UNCHANGED twin

NextInventory ==
    \/ InventoryAdd
    \/ InventoryRemoveClamped

SpecInventory == InitInventory /\ [][NextInventory]_vars

\* C17: remove_clamped(c, q), q >= 0, returns r = min(q, quantity of c),
\* leaves the quantity of c at the previous quantity minus r, with no entry
\* for c when nothing is left (get(c) is then 0), leaves no negative
\* quantity, and changes no other commodity.
C17RemoveClamped ==
    sim.op = "remove_clamped" =>
        LET was == IF DHas(sim.before, sim.c) THEN DGet(sim.before, sim.c, 0) ELSE 0
            now == IF DHas(sim.inv, sim.c) THEN DGet(sim.inv, sim.c, 0) ELSE 0
        IN  /\ sim.removed = (IF sim.q <= was THEN sim.q ELSE was)
            /\ now = was - sim.removed
            /\ (was - sim.removed = 0) => ~DHas(sim.inv, sim.c)
            /\ \A i \in 1..Len(sim.inv) : sim.inv[i][2] >= 0
            /\ \A d \in {"food", "minerals"} \ {sim.c} :
                   /\ DHas(sim.inv, d) = DHas(sim.before, d)
                   /\ DGet(sim.inv, d, 0) = DGet(sim.before, d, 0)

\* C17 witness: more was asked for than the inventory held of a commodity it
\* did hold, next to another commodity.
C17Witness ==
    /\ sim.op = "remove_clamped"
    /\ DGet(sim.before, sim.c, 0) > 0
    /\ sim.q > DGet(sim.before, sim.c, 0)
    /\ \E d \in {"food", "minerals"} \ {sim.c} : DGet(sim.before, d, 0) > 0

-----------------------------------------------------------------------------
(* Calls of consume and produce on one world with a market, a population   *)
(* and an industry.                                                        *)

MaxEconomyCalls == 2

\* The worlds after each recipe of produce, with the units the recipe ran:
\* entry i is for entry i of industry.caps.
RECURSIVE produce_trace(_, _)
produce_trace(w, i) ==
    IF i > Len(w.industry.caps) THEN << >>
    ELSE LET recipe == recipe_get(w.industry.caps[i][1])
             w1 == produce_recipe(w, recipe, w.industry.caps[i][2])
         IN  << [world |-> w1,
                 units |-> production_units(w, recipe, w.industry.caps[i][2])] >>
                 \o produce_trace(w1, i + 1)

InitEconomy ==
    /\ \E size \in {0, 7, 1000}, food_rate \in {0, 1}, growth_rate \in {1, 5},
          pressures \in {<<PS, PS>>, <<500, 0>>},
          food \in {0, 40 * QS, 100 * QS}, minerals \in {0, 39, 6 * QS, 15 * QS},
          energy \in {3 * QS, 20 * QS},
          caps \in {<< <<"farm_food", 10>> >>,
                    << <<"farm_food", 200>>, <<"refine_consumer_goods", 0>> >>,
                    << <<"refine_consumer_goods", 20>>, <<"assemble_alloys", 10>> >>,
                    << <<"assemble_alloys", 5>>, <<"refine_consumer_goods", 20>> >>} :
           LET w == World(pressures[1], pressures[2], 0, 0, {},
                          Market(<< <<"food", food>>, <<"minerals", minerals>>,
                                    <<"energy", energy>> >>, << >>, << >>),
                          [Population(size, << >>, food_rate, 0, 0)
                             EXCEPT !.growth_rate = growth_rate],
                          Industry(caps), None)
           IN  sim = [world |-> w, before |-> w, op |-> "new", trace |-> << >>,
                      calls |-> 0]
    /\ twin = None

\* consume(world, tick)
Consume ==
    /\ sim.calls < MaxEconomyCalls
    /\ sim' = [world |-> consume(sim.world), before |-> sim.world,
               op |-> "consume", trace |-> << >>, calls |-> sim.calls + 1]
    /\ UNCHANGED twin

\* produce(world, state)
Produce ==
    /\ sim.calls < MaxEconomyCalls
    /\ sim' = [world |-> produce(sim.world).world, before |-> sim.world,
               op |-> "produce", trace |-> produce_trace(sim.world, 1),
               calls |-> sim.calls + 1]
    /\ UNCHANGED twin

NextEconomy ==
    \/ Consume
    \/ Produce

SpecEconomy == InitEconomy /\ [][NextEconomy]_vars

\* The food a call of consume needed and the food it took from the market.
FoodNeeded == sim.before.population.size
                  * sim.before.population.food_required_per_capita_per_tick
FoodConsumed == InvGet(sim.before.market.inventory, "food")
                    - InvGet(sim.world.market.inventory, "food")

\* C18: with r = (needed - consumed) / needed the food shortage ratio (0
\* when needed is 0), consume leaves the size at max(0, floor(size * (1 -
\* 0.05 * r))) if r > 0 and at floor(size * (1 + growth_rate * (stability +
\* prosperity) / 2)) otherwise; 1000 heads with a positive need and no food
\* become 950, with starvation_level > 0 and food_balance < 0; 1000 heads
\* with the food they need, growth_rate 0.01 and stability = prosperity = 1
\* become 1010.
C18PopulationUpdate ==
    sim.op = "consume" =>
        LET w == sim.before
            size == w.population.size
            short == FoodNeeded - FoodConsumed
            now == sim.world.population.size
        IN  /\ (FoodNeeded > 0 /\ short > 0) =>
                   LET shrunk == (size * (20 * FoodNeeded - short))
                                     \div (20 * FoodNeeded)
                   IN  now = IF shrunk > 0 THEN shrunk ELSE 0
            /\ (FoodNeeded = 0 \/ short = 0) =>
                   now = (size * (200 * PS + w.population.growth_rate
                                                * (w.stability + w.prosperity)))
                             \div (200 * PS)
            /\ (size = 1000 /\ FoodNeeded > 0
                  /\ InvGet(w.market.inventory, "food") = 0) =>
                   /\ now = 950
                   /\ sim.world.starvation_level > 0
                   /\ sim.world.food_balance < 0
            /\ (size = 1000 /\ InvGet(w.market.inventory, "food") >= FoodNeeded
                  /\ w.population.growth_rate = 1
                  /\ w.stability = PS /\ w.prosperity = PS) =>
                   now = 1010

\* C18 witness: 1000 heads with a positive food need have found no food and
\* are now 950.
C18Witness ==
    /\ sim.op = "consume"
    /\ sim.before.population.size = 1000
    /\ FoodNeeded > 0
    /\ InvGet(sim.before.market.inventory, "food") = 0
    /\ sim.world.population.size = 950

\* The world a recipe of the last produce call found: the one the call was
\* made on for the first entry of industry.caps, the one the recipe before
\* left for the others.
RecipePre(i) == IF i = 1 THEN sim.before ELSE sim.trace[i - 1].world
RecipeOf(i) == recipe_get(sim.before.industry.caps[i][1])

\* available / per-unit requirement, to the nearest tenth of a unit.
Quotient(a, b) ==
    CHOOSE q \in 0..(a + 1) :
        LET gap == IF b * q >= a THEN b * q - a ELSE a - b * q
        IN  2 * gap < b \/ (2 * gap = b /\ q % 2 = 0)

\* production_units = min(industry cap, recipe.max_production_units_per_tick,
\* min over inputs of available / per-unit requirement); at or below 0 the
\* inventory is unchanged, above 0 each output grows by output_qty *
\* production_units.
UnitsAndOutputs(i) ==
    LET pre == RecipePre(i).market.inventory
        post == sim.trace[i].world.market.inventory
        recipe == RecipeOf(i)
        units == sim.trace[i].units
        limits == {sim.before.industry.caps[i][2],
                   recipe.max_production_units_per_tick}
                     \cup {Quotient(InvGet(pre, recipe.inputs[j][1]),
                                    recipe.inputs[j][2]) :
                              j \in 1..Len(recipe.inputs)}
    IN  /\ units \in limits
        /\ \A l \in limits : units <= l
        /\ units <= 0 => post = pre
        /\ units > 0 =>
               \A j \in 1..Len(recipe.outputs) :
                   InvGet(post, recipe.outputs[j][1])
                       = InvGet(pre, recipe.outputs[j][1])
                             + recipe.outputs[j][2] * units

\* C19 as stated: for every recipe processed by produce, production_units is
\* the least of the cap, the recipe's limit and the input quotients; when it
\* is > 0 the amount removed from each input is input_qty * production_units
\* exactly, remove_clamped never clamping, and each output grows by
\* output_qty * production_units; when it is <= 0 the inventory is unchanged.
C19InputsExact ==
    sim.op = "produce" =>
        \A i \in 1..Len(sim.trace) :
            /\ UnitsAndOutputs(i)
            /\ sim.trace[i].units > 0 =>
                   \A j \in 1..Len(RecipeOf(i).inputs) :
                       LET c == RecipeOf(i).inputs[j][1]
                       IN  InvGet(RecipePre(i).market.inventory, c)
                               - InvGet(sim.trace[i].world.market.inventory, c)
                             = RecipeOf(i).inputs[j][2] * sim.trace[i].units

\* C19: for every recipe processed by produce, production_units is the least
\* of the cap, the recipe's limit and the input quotients; when it is > 0 the
\* amount removed from each input is min(available, input_qty *
\* production_units), and each output grows by output_qty * production_units;
\* when it is <= 0 the inventory is unchanged.
C19InputsClamped ==
    sim.op = "produce" =>
        \A i \in 1..Len(sim.trace) :
            /\ UnitsAndOutputs(i)
            /\ sim.trace[i].units > 0 =>
                   \A j \in 1..Len(RecipeOf(i).inputs) :
                       LET c == RecipeOf(i).inputs[j][1]
                           available == InvGet(RecipePre(i).market.inventory, c)
                           asked == RecipeOf(i).inputs[j][2] * sim.trace[i].units
                       IN  available
                               - InvGet(sim.trace[i].world.market.inventory, c)
                             = IF asked <= available THEN asked ELSE available

\* C19 witness: a recipe has run on an input whose quotient was rounded up,
\* so that less was available than input_qty * production_units, in a world
\* whose other recipe uses the same input.
C19Witness ==
    /\ sim.op = "produce"
    /\ Len(sim.trace) = 2
    /\ \E i \in 1..2 :
           /\ sim.trace[i].units > 0
           /\ \E j \in 1..Len(RecipeOf(i).inputs) :
                  /\ RecipeOf(i).inputs[j][2] * sim.trace[i].units
                         > InvGet(RecipePre(i).market.inventory,
                                  RecipeOf(i).inputs[j][1])
                  /\ \E k \in 1..Len(RecipeOf(3 - i).inputs) :
                         RecipeOf(3 - i).inputs[k][1] = RecipeOf(i).inputs[j][1]


-----------------------------------------------------------------------------
(* visualizer/app.py: the SimulationController, which steps the simulation *)
(* and keeps the snapshots of the last max_history states.  An entry of    *)
(* the history carries, next to the snapshot, the tick_count at which it   *)
(* was recorded (`at`, which the program does not store).  No positions    *)
(* are sent to the controller here, so rewind has none to restore.         *)

MaxHistory == 3
MaxRewind == 3
MaxControllerCalls == 5

\* deque(maxlen=max_history).append: a full deque drops its oldest entry.
deque_append(history, maxlen, x) ==
    IF Len(history) >= maxlen THEN Append(Tail(history), x)
    ELSE Append(history, x)

\* sim.step(state) from its entry to its return or to the exception that
\* leaves it: the stages of a call in progress, one after the other.
RECURSIVE step(_)
step(r) == IF r.pc = "idle" THEN r ELSE step(advance(r))

\* SimulationController(initial_state, max_history=max_history)
SimulationController(initial_state, max_history) ==
    [state |-> initial_state, tick_count |-> 0, max_history |-> max_history,
     running |-> FALSE,
     history |-> << [snapshot |-> to_dict(initial_state), at |-> 0] >>]

\* Lines 91-96, r being the call of sim.step as it ended: a step that raises
\* leaves the state as far as it got and records nothing.
after_step(c, r) ==
    IF r.raised THEN [c EXCEPT !.state = r.state, !.running = FALSE]
    ELSE [c EXCEPT !.state = r.state, !.tick_count = @ + 1,
                   !.history = deque_append(@, c.max_history,
                                   [snapshot |-> to_dict(r.state),
                                    at |-> c.tick_count + 1])]

\* step_once()
step_once(c) == after_step(c, step(begin_step(Run(c.state))))

\* Lines 102-105: one snapshot is dropped and one tick counted back for each
\* of the steps, as long as more than one snapshot is left.
RECURSIVE rewind_loop(_, _)
rewind_loop(c, steps) ==
    IF steps = 0 THEN c
    ELSE LET d == rewind_loop(c, steps - 1)
         IN  IF Len(d.history) > 1
             THEN [d EXCEPT !.history = SubSeq(@, 1, Len(@) - 1),
                            !.tick_count = Max(0, @ - 1)]
             ELSE d

\* A rewind that counts the ticks back whether or not a snapshot is left.
rewind_counting_steps(c, steps) ==
    IF steps <= 0 THEN c
    ELSE LET d == rewind_loop(c, steps)
         IN  [d EXCEPT !.tick_count = Max(0, c.tick_count - steps),
                       !.state = from_dict(d.history[Len(d.history)].snapshot)]

\* rewind(steps)
rewind(c, steps) ==
    IF steps <= 0 THEN c
    ELSE LET d == rewind_loop(c, steps)
         IN  [d EXCEPT !.state = from_dict(d.history[Len(d.history)].snapshot)]

\* A controller on a universe as load_universe hands it over; `before` is
\* the controller before the last call, `peak` the highest tick_count so far.
InitController ==
    /\ sim \in {[c |-> SimulationController(
                          Universe(seed, 0, 50 * QS, FALSE, FALSE, TRUE,
                                   trading, faction, TRUE), max_history),
                 before |-> SimulationController(
                          Universe(seed, 0, 50 * QS, FALSE, FALSE, TRUE,
                                   trading, faction, TRUE), max_history),
                 op |-> "init", steps |-> 0, peak |-> 0, calls |-> 0] :
                  seed \in 0..MaxSeed, trading \in BOOLEAN,
                  faction \in BOOLEAN, max_history \in 1..MaxHistory}
    /\ twin = None

\* The run after a call that left the controller as c.
Called(run, c, op, steps) ==
    [run EXCEPT !.c = c, !.before = run.c, !.op = op, !.steps = steps,
                !.peak = Max(@, c.tick_count), !.calls = @ + 1]

StepOnce ==
    /\ sim.calls < MaxControllerCalls
    /\ sim' = Called(sim, step_once(sim.c), "step_once", 0)
    /\ UNCHANGED twin

Rewind ==
    /\ sim.calls < MaxControllerCalls
    /\ \E steps \in 0..MaxRewind :
           sim' = Called(sim, rewind(sim.c, steps), "rewind", steps)
    /\ UNCHANGED twin

NextController ==
    \/ StepOnce
    \/ Rewind

SpecController == InitController /\ [][NextController]_vars

\* The last entry of the history.
Newest == sim.c.history[Len(sim.c.history)]

\* The state is the one rebuilt from the snapshot recorded when tick_count
\* had its present value.
AtRecordedSnapshot ==
    /\ Newest.at = sim.c.tick_count
    /\ sim.c.state = from_dict(Newest.snapshot)

\* C20: with tick_count = n, rewind(k), k >= 1, sets tick_count to
\* max(0, n - k) and makes the state the snapshot recorded when tick_count
\* had that value, for every n and k, n beyond max_history included.
C20RewindExact ==
    (sim.op = "rewind" /\ sim.steps >= 1) =>
        /\ sim.c.tick_count = Max(0, sim.before.tick_count - sim.steps)
        /\ AtRecordedSnapshot

\* C20, amended: with tick_count = n and h snapshots in the history,
\* rewind(k), k >= 1, sets tick_count to n - min(k, h - 1) and makes the
\* state the snapshot recorded when tick_count had that value; h = n + 1,
\* and the new tick_count max(0, n - k), as long as tick_count has never
\* reached max_history.
C20RewindWithinHistory ==
    (sim.op = "rewind" /\ sim.steps >= 1) =>
        /\ sim.c.tick_count =
               sim.before.tick_count
                   - Min(sim.steps, Len(sim.before.history) - 1)
        /\ AtRecordedSnapshot
        /\ sim.peak < sim.c.max_history =>
               /\ Len(sim.before.history) = sim.before.tick_count + 1
               /\ sim.c.tick_count = Max(0, sim.before.tick_count - sim.steps)

\* C20, witness: a rewind by more steps than the history has snapshots to
\* drop, after tick_count has passed max_history, that stops above
\* max(0, n - k).
C20Witness ==
    /\ sim.op = "rewind"
    /\ sim.steps >= Len(sim.before.history)
    /\ sim.before.tick_count > sim.c.max_history
    /\ sim.c.tick_count > Max(0, sim.before.tick_count - sim.steps)
    /\ sim.c.tick_count < sim.before.tick_count


-----------------------------------------------------------------------------
(* visualizer/app.py: the SimulationController under its threads.  The run *)
(* loop's thread and the request threads each hold a position in the       *)
(* method they execute; every method body runs inside `with self._lock`.   *)
(* `xy` holds the coordinates of the worlds of the current state, which    *)
(* to_dict does not store, `positions` the controller's _positions.        *)

MaxRequests == 3
MaxLoopRuns == 2

RequestThreads == {"r1", "r2"}
Threads == RequestThreads \cup {"loop"}
Methods == {"play", "pause", "step_once", "rewind", "update_positions", "stop"}

\* An RLock lets any thread in, held or not.
can_acquire_unlocked(lock, t) == TRUE

\* threading.RLock: free, or held by the thread that asks for it.
can_acquire(lock, t) == lock = NoId \/ lock = t

\* Lines 91-92 and 95: sim.step has returned or raised, r being the call as
\* it ended.
step_ended(c, r) ==
    IF r.raised THEN [c EXCEPT !.state = r.state, !.running = FALSE]
    ELSE [c EXCEPT !.state = r.state, !.tick_count = @ + 1]

\* Line 93: self._history.append(to_dict(self._state))
take_snapshot(c) ==
    [c EXCEPT !.history = deque_append(@, c.max_history,
                              [snapshot |-> to_dict(c.state),
                               at |-> c.tick_count])]

\* Lines 123-124: the newest snapshot is taken again.
retake_snapshot(c) ==
    [c EXCEPT !.history[Len(c.history)].snapshot = to_dict(c.state)]

\* Lines 108-113: the worlds of a rebuilt state start at the origin and take
\* the positions the controller remembers.
restore_positions(positions, ids) ==
    [id \in ids |-> DGet(positions, id, 0)]

\* The position in the method, after the lock is taken, at which a thread
\* starts.
body_of(method) ==
    CASE method = "play" -> "play"
      [] method = "pause" -> "pause"
      [] method = "step_once" -> "step"
      [] method = "rewind" -> "rewind"
      [] method = "update_positions" -> "positions"
      [] method = "_run_loop" -> "running"

InitThreads ==
    /\ sim \in {[c |-> SimulationController(
                          Universe(seed, 0, 50 * QS, FALSE, FALSE, TRUE,
                                   trading, FALSE, TRUE), MaxHistory),
                 lock |-> NoId,
                 pc |-> [t \in Threads |-> "idle"],
                 method |-> [t \in Threads |-> NoId],
                 arg |-> [t \in Threads |-> 0],
                 alive |-> FALSE, stop_event |-> FALSE,
                 xy |-> [id \in {"A", "B", "C"} |-> 0], positions |-> << >>,
                 requests |-> 0, loop_runs |-> 0] :
                  seed \in {0}, trading \in {FALSE}}
    /\ twin = None

\* A request thread enters a method of the controller; stop() sets the
\* event without the lock.
Request ==
    /\ sim.requests < MaxRequests
    /\ \E t \in RequestThreads, m \in Methods, a \in 1..2 :
           /\ sim.pc[t] = "idle"
           /\ a = 1 \/ m \in {"rewind", "update_positions"}
           /\ sim' = IF m = "stop"
                     THEN [sim EXCEPT !.stop_event = TRUE, !.requests = @ + 1]
                     ELSE [sim EXCEPT !.pc[t] = "acquire", !.method[t] = m,
                                      !.arg[t] = a, !.requests = @ + 1]
    /\ UNCHANGED twin

\* Line 129: the run loop tests the stop event and goes for the lock, or
\* ends.
LoopTop ==
    /\ sim.alive
    /\ sim.pc["loop"] = "top"
    /\ sim.loop_runs < MaxLoopRuns
    /\ sim' = IF sim.stop_event
              THEN [sim EXCEPT !.pc["loop"] = "idle", !.alive = FALSE]
              ELSE [sim EXCEPT !.pc["loop"] = "acquire",
                               !.method["loop"] = "_run_loop",
                               !.loop_runs = @ + 1]
    /\ UNCHANGED twin

\* with self._lock: entered.
Acquire ==
    /\ \E t \in Threads :
           /\ sim.pc[t] = "acquire"
           /\ can_acquire(sim.lock, t)
           /\ sim' = [sim EXCEPT !.lock = t, !.pc[t] = body_of(sim.method[t])]
    /\ UNCHANGED twin

\* Line 131: the run loop steps only while the controller is running.
LoopRunning ==
    /\ sim.pc["loop"] = "running"
    /\ sim' = [sim EXCEPT !.pc["loop"] =
                              IF sim.c.running THEN "step" ELSE "release"]
    /\ UNCHANGED twin

\* sim.step(self._state) runs to its end; the tick is counted if it
\* returned.
StepRuns ==
    /\ \E t \in Threads, d \in {step_ended(sim.c,
                                           step(begin_step(Run(sim.c.state))))} :
           /\ sim.pc[t] = "step"
           /\ sim' = [sim EXCEPT !.c = d,
                                 !.pc[t] = IF d.tick_count > sim.c.tick_count
                                           THEN "snapshot" ELSE "release"]
    /\ UNCHANGED twin

Snapshot ==
    /\ \E t \in Threads :
           /\ sim.pc[t] = "snapshot"
           /\ sim' = [sim EXCEPT !.c = take_snapshot(sim.c),
                                 !.pc[t] = "release"]
    /\ UNCHANGED twin

\* rewind(steps), its body inside the lock.
RewindRuns ==
    /\ \E t \in Threads :
           /\ sim.pc[t] = "rewind"
           /\ sim' = [sim EXCEPT !.c = rewind(sim.c, sim.arg[t]),
                                 !.xy = restore_positions(sim.positions,
                                                          DOMAIN sim.xy),
                                 !.pc[t] = "release"]
    /\ UNCHANGED twin

\* update_positions({"A": position}), its body inside the lock.
UpdatePositions ==
    /\ \E t \in Threads :
           /\ sim.pc[t] = "positions"
           /\ sim' = [sim EXCEPT !.xy["A"] = sim.arg[t],
                                 !.positions = DSet(@, "A", sim.arg[t]),
                                 !.c = retake_snapshot(sim.c),
                                 !.pc[t] = "release"]
    /\ UNCHANGED twin

\* play(): the controller runs, and a run loop is started if none is alive.
Play ==
    /\ \E t \in Threads :
           /\ sim.pc[t] = "play"
           /\ sim' = [sim EXCEPT !.c.running = TRUE, !.pc[t] = "release",
                                 !.alive = TRUE,
                                 !.pc["loop"] = IF sim.alive THEN @ ELSE "top"]
    /\ UNCHANGED twin

Pause ==
    /\ \E t \in Threads :
           /\ sim.pc[t] = "pause"
           /\ sim' = [sim EXCEPT !.c.running = FALSE, !.pc[t] = "release"]
    /\ UNCHANGED twin

\* The with block is left; the run loop sleeps and starts over.
Release ==
    /\ \E t \in Threads :
           /\ sim.pc[t] = "release"
           /\ sim' = [sim EXCEPT !.lock = NoId, !.method[t] = NoId,
                                 !.pc[t] = IF t = "loop" THEN "top" ELSE "idle"]
    /\ UNCHANGED twin

NextThreads ==
    \/ Request
    \/ LoopTop
    \/ Acquire
    \/ LoopRunning
    \/ StepRuns
    \/ Snapshot
    \/ RewindRuns
    \/ UpdatePositions
    \/ Play
    \/ Pause
    \/ Release

SpecThreads == InitThreads /\ [][NextThreads]_vars

\* The threads inside sim.step, and those inside a rewind, a snapshot or a
\* position update.
Stepping == {t \in Threads : sim.pc[t] = "step"}
Touching == {t \in Threads : sim.pc[t] \in {"rewind", "snapshot", "positions"}}

\* C21: under every interleaving of the run loop with play, pause,
\* step_once, rewind and update_positions of request threads, at most one
\* sim.step is in progress, and no rewind, snapshot or position update runs
\* while a step is in progress.
C21Serialized ==
    /\ Cardinality(Stepping) <= 1
    /\ Stepping # {} => Touching = {}
    /\ Cardinality(Touching) <= 1

\* C21, witness: the run loop is inside sim.step while one request thread
\* waits for the lock to rewind and the other to step.
C21Witness ==
    /\ sim.pc["loop"] = "step"
    /\ \E t, u \in RequestThreads :
           /\ sim.pc[t] = "acquire" /\ sim.method[t] = "rewind"
           /\ sim.pc[u] = "acquire" /\ sim.method[u] = "step_once"


-----------------------------------------------------------------------------
(* build_candidate_trades on one lane between two worlds, over the prices, *)
(* the stocks, the lane's length and hazard, and a destination without a   *)
(* market.                                                                 *)

FoodPrices == {8 * PrS, 990, 10 * PrS, 1010, 12 * PrS, 15 * PrS}

\* The price dicts of a market: no food price, or one of FoodPrices, with or
\* without a price of minerals.
PriceDicts ==
    {<< >>, << <<"minerals", 7 * PrS>> >>}
        \cup {<< <<"food", p>> >> : p \in FoodPrices}
        \cup {<< <<"food", p>>, <<"minerals", 4 * PrS>> >> : p \in FoodPrices}

InitCandidates ==
    /\ \E prices_a \in PriceDicts, prices_b \in PriceDicts, b_market \in BOOLEAN,
          food \in {0, 4 * QS}, distance \in {5, 10, 25}, hazard \in {0, 600} :
           sim = [state |-> [TradeUniverse(TRUE, food, food, << >>, distance,
                                           100 * QS)
                               EXCEPT !.worlds["A"].market.prices = prices_a,
                                      !.worlds["B"].market =
                                          IF b_market
                                          THEN [@ EXCEPT !.prices = prices_b]
                                          ELSE None,
                                      !.lanes["L1"].hazard = hazard],
                  built |-> FALSE, cands |-> << >>]
    /\ twin = None

NextCandidates == BuildCandidateTrades

SpecCandidates == InitCandidates /\ [][NextCandidates]_vars

\* The price of a commodity in a world's market, if it has both.
HasPrice(w, c) ==
    /\ sim.state.worlds[w].market # None
    /\ DHas(sim.state.worlds[w].market.prices, c)
PriceAt(w, c) == DGet(sim.state.worlds[w].market.prices, c, 0)

\* price_D - price_S - shipping_cost > 0.1, with shipping_cost =
\* base_price * (distance * 0.01 + hazard * 0.05): prices in hundredths,
\* the distance in tenths and the hazard in thousandths, all times 20000.
Profitable(s) ==
    LET lane == sim.state.lanes[s.lane_id]
        base == base_price(s.commodity_id)
    IN  20000 * (PriceAt(s.destination_world_id, s.commodity_id)
                   - PriceAt(s.source_world_id, s.commodity_id))
            - base * (20 * lane.distance + lane.hazard)
          > 20000 * (PrS \div 10)

\* C22: build_candidate_trades emits a candidate from S to D only if
\* price_D - price_S - shipping_cost > 0.1 and price_S < base_price <
\* price_D; it never emits candidates in both directions for one lane and
\* commodity, and none when an endpoint lacks a market or a price.
C22ArbitrageOnly ==
    sim.built =>
        /\ \A i \in 1..Len(sim.cands) :
               LET s == sim.cands[i]
               IN  /\ HasPrice(s.source_world_id, s.commodity_id)
                   /\ HasPrice(s.destination_world_id, s.commodity_id)
                   /\ Profitable(s)
                   /\ PriceAt(s.source_world_id, s.commodity_id)
                          < base_price(s.commodity_id)
                   /\ base_price(s.commodity_id)
                          < PriceAt(s.destination_world_id, s.commodity_id)
        /\ \A i, j \in 1..Len(sim.cands) :
               ~ /\ sim.cands[i].lane_id = sim.cands[j].lane_id
                 /\ sim.cands[i].commodity_id = sim.cands[j].commodity_id
                 /\ sim.cands[i].source_world_id
                        = sim.cands[j].destination_world_id

\* C22, witness: a candidate is emitted from lane.b to lane.a on a hazardous
\* lane, while another commodity of the lane has no price at one end and no
\* candidate.
C22Witness ==
    /\ sim.built
    /\ \E i \in 1..Len(sim.cands) :
           /\ sim.cands[i].source_world_id = "B"
           /\ sim.state.lanes[sim.cands[i].lane_id].hazard > 0
    /\ \E c \in {"food", "minerals"} :
           /\ ~(HasPrice("A", c) /\ HasPrice("B", c))
           /\ \A i \in 1..Len(sim.cands) : sim.cands[i].commodity_id # c


-----------------------------------------------------------------------------
(* factions/ai.py: the value of a world to a faction and the faction's     *)
(* choice of an action.  Scores are held in 1/2000.  The worlds have no    *)
(* planets and lie at the origin, where the dataclass puts them.  Each     *)
(* operator returns, next to its result, the state its reads leave behind: *)
(* the influence and garrison maps are defaultdicts, which a read by index *)
(* extends.                                                                *)

ScoreScale == 2000
\* -float('inf'): below every score.
MinusInfinity == -2000000000

\* state.neighbors(world_id), in the order of the lanes.
RECURSIVE neighbors(_, _, _)
neighbors(u, world_id, i) ==
    IF i > Len(u.lane_order) THEN << >>
    ELSE LET lane == u.lanes[u.lane_order[i]]
         IN  (IF lane.a = world_id THEN <<lane.b>>
              ELSE IF lane.b = world_id THEN <<lane.a>>
              ELSE << >>) \o neighbors(u, world_id, i + 1)

\* The faction's own influence read by index: the defaultdict gains an
\* entry for a faction it did not hold.
own_influence_by_index(influence, f) ==
    [value |-> 10 * DGet(influence, f, 0),
     influence |-> IF DHas(influence, f) THEN influence
                   ELSE DSet(influence, f, 0)]

\* Lines 86-87: the faction's own influence, times 5, read only if the map
\* holds it.
own_influence(influence, f) ==
    [value |-> IF DHas(influence, f) THEN 10 * DGet(influence, f, 0) ELSE 0,
     influence |-> influence]

\* Lines 88-90: ten times the influence of the controlling other faction.
RECURSIVE opposing_influence(_, _, _, _)
opposing_influence(influence, f, control, i) ==
    IF i > Len(influence) THEN 0
    ELSE (IF influence[i][1] # f /\ influence[i][1] = control
          THEN 20 * influence[i][2] ELSE 0)
             + opposing_influence(influence, f, control, i + 1)

\* Lines 77-90: the control factors and the influence map after they read.
control_factors(faction, fs) ==
    IF fs.control = faction.id
    THEN [value |-> 20 * ScoreScale, influence |-> fs.influence]
    ELSE IF fs.control = NoId
    THEN [value |-> 10 * ScoreScale, influence |-> fs.influence]
    ELSE LET own == own_influence(fs.influence, faction.id)
         IN  [value |-> own.value - 5 * ScoreScale
                          - opposing_influence(own.influence, faction.id,
                                               fs.control, 1),
              influence |-> own.influence]

\* compute_world_value(faction, world, state): the score and the state
\* after the call.
compute_world_value(faction, id, u) ==
    LET world == u.worlds[id]
        control == IF world.factions = None
                   THEN [value |-> 0, influence |-> << >>]
                   ELSE control_factors(faction, world.factions)
    IN  [score |->
             (IF world.market = None THEN 0
              ELSE 2 * InvGet(world.market.inventory, "food")
                     + InvGet(world.market.inventory, "minerals"))
             + (IF world.industry = None THEN 0
                ELSE Len(world.industry.caps) * 10 * ScoreScale)
             + Len(neighbors(u, id, 1)) * 2 * ScoreScale
             + (IF /\ faction.capital_world_id # NoId
                   /\ faction.capital_world_id \in DOMAIN u.worlds
                   /\ id # faction.capital_world_id
                THEN 10 * ScoreScale ELSE 0)
             + 10 * world.stability + 10 * world.prosperity
             + (IF "capital" \in world.tags THEN 50 * ScoreScale ELSE 0)
             + (IF "sacred" \in world.tags THEN 30 * ScoreScale ELSE 0)
             + control.value
             - 20 * world.unrest - 10 * world.scarcity
             - 30 * (PS - world.stability),
         state |-> IF world.factions = None THEN u
                   ELSE [u EXCEPT !.worlds[id].factions.influence =
                                      control.influence]]

\* Line 108
controlled_worlds(faction, u) ==
    {id \in DOMAIN u.worlds :
        /\ u.worlds[id].factions # None
        /\ u.worlds[id].factions.control = faction.id}

\* Every world the faction does not control, wherever it lies.
candidate_expansion_worlds_anywhere(faction, u) ==
    {id \in DOMAIN u.worlds :
        \/ u.worlds[id].factions = None
        \/ u.worlds[id].factions.control # faction.id}

\* Lines 111-117: the neighbours of the faction's worlds that the faction
\* does not control.
candidate_expansion_worlds(faction, u) ==
    {id \in DOMAIN u.worlds :
        /\ \E c \in controlled_worlds(faction, u) :
               \E k \in 1..Len(neighbors(u, c, 1)) : neighbors(u, c, 1)[k] = id
        /\ \/ u.worlds[id].factions = None
           \/ u.worlds[id].factions.control # faction.id}

\* Lines 120-124, from candidate i of the set's iteration order on.
RECURSIVE evaluate_expansion(_, _, _, _, _)
evaluate_expansion(faction, u, order, i, best) ==
    IF i > Len(order) THEN [action |-> best, state |-> u]
    ELSE LET v == compute_world_value(faction, order[i], u)
         IN  evaluate_expansion(faction, v.state, order, i + 1,
                 IF v.score > best.score
                 THEN [type |-> "expand_influence", target |-> order[i],
                       score |-> v.score]
                 ELSE best)

\* Lines 128-135 and 139-146: an investment in the faction's worlds that
\* hold the stock, from world i on.
RECURSIVE consider_investment(_, _, _, _, _)
consider_investment(faction, u, type, i, best) ==
    IF i > Len(u.world_order) THEN best
    ELSE LET id == u.world_order[i]
             world == u.worlds[id]
             score == IF type = "invest_civilian"
                      THEN 20 * world.prosperity + 10 * (PS - world.scarcity)
                      ELSE 20 * world.unrest + 10 * (PS - world.stability)
             stocked == /\ world.market # None
                        /\ InvGet(world.market.inventory,
                                  IF type = "invest_civilian"
                                  THEN "minerals" ELSE "alloy")
                               >= (IF type = "invest_civilian"
                                   THEN 10 * QS ELSE 5 * QS)
         IN  consider_investment(faction, u, type, i + 1,
                 IF /\ id \in controlled_worlds(faction, u)
                    /\ stocked
                    /\ score > best.score
                 THEN [type |-> type, target |-> id, score |-> score]
                 ELSE best)

\* Lines 127-135 and 138-146: the investments a faction's traits allow.
select_investment(faction, u, best) ==
    LET civilian == IF "expansionist" \in faction.traits
                    THEN consider_investment(faction, u, "invest_civilian", 1,
                                             best)
                    ELSE best
    IN  IF "aggressive" \in faction.traits
        THEN consider_investment(faction, u, "invest_military", 1, civilian)
        ELSE civilian

\* Lines 126-148, e being the action and the state after the expansion
\* candidates.
finish_selection(faction, e) ==
    [action |-> select_investment(faction, e.state, e.action),
     state |-> e.state]

\* select_action(faction, state), the set of candidates being iterated in
\* `order`.
select_action(faction, u, order) ==
    finish_selection(faction,
        evaluate_expansion(faction, u, order, 1,
            [type |-> "no_action", target |-> NoId, score |-> MinusInfinity]))

\* The orders in which a set may be iterated.
Orders(S) ==
    {order \in [1..Cardinality(S) -> S] :
        \A i, j \in 1..Cardinality(S) : i # j => order[i] # order[j]}

MaxSelectCalls == 1

\* The faction states of a world: none, nobody's, the first faction's, the
\* second faction's without and with an influence of the first.
FactionStates ==
    {None,
     WorldFactionState(<< >>, NoId, 700, 400),
     WorldFactionState(<< <<"f1", 800>> >>, "f1", 700, 400),
     WorldFactionState(<< <<"f2", 900>> >>, "f2", 700, 400),
     WorldFactionState(<< <<"f2", 800>>, <<"f1", 300>> >>, "f2", 700, 400)}

AIWorld(fs, minerals, alloy) ==
    World(PS, PS, 0, 0, {},
          Market(<< <<"minerals", minerals>> >> \o
                 (IF alloy > 0 THEN << <<"alloy", alloy>> >> ELSE << >>),
                 << >>, << >>),
          None, None, fs)

InitSelect ==
    /\ \E fa \in FactionStates, fb \in FactionStates, fc \in FactionStates,
          traits \in SUBSET {"expansionist", "aggressive"},
          minerals \in {8 * QS, 12 * QS}, alloy \in {0, 6 * QS} :
           LET u == [Universe(0, 0, 0, FALSE, FALSE, TRUE, FALSE, FALSE, FALSE)
                       EXCEPT !.worlds = [id \in {"A", "B", "C"} |->
                                  AIWorld(CASE id = "A" -> fa
                                            [] id = "B" -> fb
                                            [] id = "C" -> fc,
                                          minerals, alloy)],
                              !.factions = << Faction("f1", traits),
                                              Faction("f2", {}) >>]
           IN  sim = [state |-> u, before |-> u, op |-> "init",
                      faction |-> NoId, order |-> << >>,
                      result |-> [type |-> "none", target |-> NoId,
                                  score |-> 0],
                      calls |-> 0]
    /\ twin = None

\* The run after a call on behalf of faction f that left `state`.
Selected(run, op, f, order, result, state) ==
    [state |-> state, before |-> run.state, op |-> op, faction |-> f,
     order |-> order, result |-> result, calls |-> run.calls + 1]

\* action_plan = select_action(faction, state)
SelectAction ==
    /\ sim.calls < MaxSelectCalls
    /\ \E i \in 1..Len(sim.state.factions) :
           \E order \in Orders(candidate_expansion_worlds(sim.state.factions[i],
                                                          sim.state)) :
               \E res \in {select_action(sim.state.factions[i], sim.state,
                                         order)} :
                   sim' = Selected(sim, "select_action", sim.state.factions[i].id,
                                   order, res.action, res.state)
    /\ UNCHANGED twin

\* value = compute_world_value(faction, world, state)
ComputeWorldValue ==
    /\ sim.calls < MaxSelectCalls
    /\ \E i \in 1..Len(sim.state.factions), id \in DOMAIN sim.state.worlds :
           \E res \in {compute_world_value(sim.state.factions[i], id,
                                           sim.state)} :
               sim' = Selected(sim, "compute_world_value",
                               sim.state.factions[i].id, << >>,
                               [type |-> "value", target |-> id,
                                score |-> res.score],
                               res.state)
    /\ UNCHANGED twin

NextSelect ==
    \/ SelectAction
    \/ ComputeWorldValue

SpecSelect == InitSelect /\ [][NextSelect]_vars

\* The acting faction of the last call and the worlds it controlled.
Acting ==
    sim.before.factions[CHOOSE i \in 1..Len(sim.before.factions) :
                           sim.before.factions[i].id = sim.faction]
Owned == controlled_worlds(Acting, sim.before)

AdjacentToOwned(id) ==
    \E l \in DOMAIN sim.before.lanes :
        \/ sim.before.lanes[l].a = id /\ sim.before.lanes[l].b \in Owned
        \/ sim.before.lanes[l].b = id /\ sim.before.lanes[l].a \in Owned

Uncontrolled(id) ==
    \/ sim.before.worlds[id].factions = None
    \/ sim.before.worlds[id].factions.control = NoId

NotOwn(id) == id \notin Owned

\* An investment of the given kind qualifies in some world of the faction.
Invests(trait, c, threshold) ==
    /\ trait \in Acting.traits
    /\ \E id \in Owned :
           InvGet(sim.before.worlds[id].market.inventory, c) >= threshold

\* The choice among the expansion targets T: the target has the highest
\* value of T and is the first of the order with that value.
BestOf(T) ==
    /\ sim.result.target \in T
    /\ sim.result.score
           = compute_world_value(Acting, sim.result.target, sim.before).score
    /\ \A k \in 1..Len(sim.order) :
           LET v == compute_world_value(Acting, sim.order[k], sim.before).score
           IN  sim.order[k] \in T =>
                   /\ v <= sim.result.score
                   /\ v = sim.result.score =>
                          \E j \in 1..k : sim.order[j] = sim.result.target

NoAction ==
    sim.result = [type |-> "no_action", target |-> NoId,
                  score |-> MinusInfinity]

\* C23: select_action proposes expand_influence only for an uncontrolled
\* world joined by a lane to a world the faction controls; among such
\* targets it picks the one of highest compute_world_value, the first
\* evaluated winning ties; it returns the no_action sentinel when no
\* candidate action qualifies.
C23UncontrolledTargets ==
    sim.op = "select_action" =>
        /\ sim.result.type = "expand_influence" =>
               BestOf({id \in DOMAIN sim.before.worlds :
                          Uncontrolled(id) /\ AdjacentToOwned(id)})
        /\ (/\ {id \in DOMAIN sim.before.worlds :
                   Uncontrolled(id) /\ AdjacentToOwned(id)} = {}
            /\ ~Invests("expansionist", "minerals", 10 * QS)
            /\ ~Invests("aggressive", "alloy", 5 * QS)) => NoAction

\* C23, amended: select_action proposes expand_influence only for a world
\* the acting faction does not control (uncontrolled or controlled by
\* another faction) that is joined by a lane to a world the faction
\* controls; among such targets it picks the one of highest
\* compute_world_value, the first evaluated winning ties; it returns the
\* no_action sentinel when no candidate action qualifies.
C23TargetsNotOwn ==
    sim.op = "select_action" =>
        /\ sim.result.type = "expand_influence" =>
               BestOf({id \in DOMAIN sim.before.worlds :
                          NotOwn(id) /\ AdjacentToOwned(id)})
        /\ (/\ {id \in DOMAIN sim.before.worlds :
                   NotOwn(id) /\ AdjacentToOwned(id)} = {}
            /\ ~Invests("expansionist", "minerals", 10 * QS)
            /\ ~Invests("aggressive", "alloy", 5 * QS)) => NoAction

\* C23, witness: the faction expands into a world another faction
\* controls, the first evaluated of two targets of equal value.
C23Witness ==
    /\ sim.op = "select_action"
    /\ sim.result.type = "expand_influence"
    /\ ~Uncontrolled(sim.result.target)
    /\ Len(sim.order) = 2
    /\ sim.order[1] = sim.result.target
    /\ compute_world_value(Acting, sim.order[2], sim.before).score
           = sim.result.score


\* C25: compute_world_value, and select_action which calls it, leave the
\* UniverseState as it was: worlds, inventories, influence and garrison
\* maps, lanes, shipments and the generator, for every faction and world,
\* a faction without an influence entry in the evaluated world included.
C25StateUnchanged ==
    sim.op \in {"select_action", "compute_world_value"} =>
        sim.state = sim.before

\* C25, witness: the value of a world controlled by another faction was
\* computed for a faction that has no influence entry in it.
C25Witness ==
    /\ sim.op = "compute_world_value"
    /\ sim.before.worlds[sim.result.target].factions # None
    /\ sim.before.worlds[sim.result.target].factions.control
           \notin {NoId, sim.faction}
    /\ ~DHas(sim.before.worlds[sim.result.target].factions.influence,
             sim.faction)


-----------------------------------------------------------------------------
(* economy/investment.py: stock is spent on a production cap.  Caps count  *)
(* tenths of a production unit.                                            *)

\* investment_units = 1.0
InvestmentUnits == 10
MaxInvestCalls == 2

\* rng.choice(seq): one draw below len(seq).
choice(seq, g) ==
    [picked |-> seq[rng_below(rng_advance(g), Len(seq)) + 1],
     rng |-> rng_advance(g)]

\* The body shared by invest_civilian and invest_military: the stock is
\* removed first, then a recipe is drawn among the candidates the caps hold,
\* if there is one.
invest(w, g, c, needed, candidates) ==
    IF w.market = None \/ w.industry = None THEN [world |-> w, rng |-> g]
    ELSE IF InvGet(w.market.inventory, c) < needed THEN [world |-> w, rng |-> g]
    ELSE LET paid == [w EXCEPT !.market.inventory =
                                   remove_clamped(@, c, needed).inv]
             available == SelectSeq(candidates,
                                    LAMBDA r : DHas(w.industry.caps, r))
         IN  IF Len(available) = 0 THEN [world |-> paid, rng |-> g]
             ELSE [world |-> [paid EXCEPT !.industry.caps =
                                 DSet(@, choice(available, g).picked,
                                      DGet(@, choice(available, g).picked, 0)
                                          + InvestmentUnits)],
                   rng |-> choice(available, g).rng]

CivilianRecipes == <<"farm_food", "mine_minerals", "refine_consumer_goods">>
MilitaryRecipes == <<"refine_alloy", "assemble_alloys">>

\* invest_civilian(world, state): 10 minerals.
invest_civilian(w, g) == invest(w, g, "minerals", 10 * QS, CivilianRecipes)

\* invest_military(world, state): 5 alloy.
invest_military(w, g) == invest(w, g, "alloy", 5 * QS, MilitaryRecipes)

InitInvest ==
    /\ \E seed \in 0..MaxSeed, minerals \in {8 * QS, 10 * QS, 25 * QS},
          alloy \in {0, 5 * QS, 12 * QS}, market \in BOOLEAN,
          industry \in {None,
                        Industry(<< >>),
                        Industry(<< <<"mine_minerals", 100>>,
                                    <<"assemble_alloys", 100>> >>),
                        Industry(<< <<"farm_food", 100>>,
                                    <<"refine_consumer_goods", 50>>,
                                    <<"refine_alloy", 20>>,
                                    <<"assemble_alloys", 20>> >>),
                        Industry(<< <<"assemble_alloys", 100>> >>),
                        Industry(<< <<"farm_food", 100>> >>)} :
           LET w == World(PS, PS, 0, 0, {},
                          IF market
                          THEN Market(<< <<"minerals", minerals>> >> \o
                                      (IF alloy > 0 THEN << <<"alloy", alloy>> >>
                                       ELSE << >>), << >>, << >>)
                          ELSE None,
                          None, industry, None)
           IN  sim = [world |-> w, rng |-> get_seeded_rng(seed, 0),
                      before |-> w, op |-> "init", calls |-> 0]
    /\ twin = None

\* The run after an investment that left the world and the generator so.
Invested(run, op, res) ==
    [world |-> res.world, rng |-> res.rng, before |-> run.world, op |-> op,
     calls |-> run.calls + 1]

InvestCivilian ==
    /\ sim.calls < MaxInvestCalls
    /\ sim' = Invested(sim, "invest_civilian", invest_civilian(sim.world, sim.rng))
    /\ UNCHANGED twin

InvestMilitary ==
    /\ sim.calls < MaxInvestCalls
    /\ sim' = Invested(sim, "invest_military", invest_military(sim.world, sim.rng))
    /\ UNCHANGED twin

NextInvest ==
    \/ InvestCivilian
    \/ InvestMilitary

SpecInvest == InitInvest /\ [][NextInvest]_vars

\* The world lost exactly `needed` of c and exactly one recipe of the
\* candidates that its caps held gained one unit; nothing else changed.
PaidForCap(c, needed, candidates) ==
    /\ sim.before.market # None /\ sim.before.industry # None
    /\ InvGet(sim.world.market.inventory, c)
           = InvGet(sim.before.market.inventory, c) - needed
    /\ \A d \in {"food", "minerals", "alloy", "energy", "consumer_goods"} \ {c} :
           InvGet(sim.world.market.inventory, d)
               = InvGet(sim.before.market.inventory, d)
    /\ \E k \in 1..Len(candidates) :
           /\ DHas(sim.before.industry.caps, candidates[k])
           /\ sim.world.industry.caps
                  = DSet(sim.before.industry.caps, candidates[k],
                         DGet(sim.before.industry.caps, candidates[k], 0)
                             + InvestmentUnits)

\* C26: invest_civilian either changes nothing or removes exactly 10
\* minerals and raises by exactly 1 the cap of exactly one of farm_food,
\* mine_minerals and refine_consumer_goods that the caps hold;
\* invest_military does the same with 5 alloy and refine_alloy and
\* assemble_alloys.  Stock is never spent without a cap being raised.
C26PaidOrUnchanged ==
    /\ sim.op = "invest_civilian" =>
           \/ sim.world = sim.before
           \/ PaidForCap("minerals", 10 * QS, CivilianRecipes)
    /\ sim.op = "invest_military" =>
           \/ sim.world = sim.before
           \/ PaidForCap("alloy", 5 * QS, MilitaryRecipes)


-----------------------------------------------------------------------------
(* factions/integrate.py within core/sim.py's step.                        *)

\* C24: in a step of a universe with factions, the faction stage selects
\* and executes one action for each faction (before the event roll), and
\* the step then completes and returns its TickReport: a call that reached
\* the faction stage ends with that stage completed and a report returned.
C24FactionStageCompletes ==
    (/\ sim.pc = "idle"
     /\ Len(sim.entry.factions) > 0
     /\ \E k \in 1..Len(sim.done) : sim.done[k] = "prices") =>
        /\ \E k \in 1..Len(sim.done) : sim.done[k] = "factions"
        /\ ~sim.raised
        /\ sim.report # None


-----------------------------------------------------------------------------
(* economy/trade.py: what the shipments of a call carry, what their source *)
(* loses and what their lane books.                                        *)

\* The quantity of commodity c the shipments send off from world id.
RECURSIVE SourceLoad(_, _, _, _)
SourceLoad(ships, id, c, i) ==
    IF i > Len(ships) THEN 0
    ELSE (IF ships[i].source_world_id = id /\ ships[i].commodity_id = c
          THEN ships[i].quantity ELSE 0)
            + SourceLoad(ships, id, c, i + 1)

\* C27: for every shipment process_trade adds to active_shipments, the
\* quantity removed from the source's inventory, the quantity of the
\* shipment and the used capacity registered for it are equal, also when
\* several lanes draw one commodity from one source in one tick: once the
\* trade stage has run, the shipments it sent off on a lane sum to the
\* capacity booked on the lane, and right after the stage, nothing having
\* been in flight, a world that is a market only has lost what the
\* shipments carry away from it.
C27ShipmentConserved ==
    /\ "trade" \in Range(sim.done) =>
           \A l \in DOMAIN sim.state.lanes :
               LaneLoad(sim.departed, l, 1) = DGet(sim.state.used_capacity, l, 0)
    /\ (sim.pc = "prices" /\ Len(sim.entry.active_shipments) = 0) =>
           \A id \in DOMAIN sim.state.worlds, c \in Commodities :
               LET w == sim.state.worlds[id]
               IN  (w.market # None /\ w.population = None /\ w.industry = None)
                       => SourceLoad(sim.departed, id, c, 1)
                              = InvGet(sim.entry.worlds[id].market.inventory, c)
                                  - InvGet(w.market.inventory, c)


-----------------------------------------------------------------------------
(* factions/actions.py and factions/model.py: influence only grows, so a   *)
(* controller that holds the loss threshold keeps the world.               *)

\* No entry of the influence dict is deleted or lowered by the step taken.
InfluenceKept ==
    \A i \in 1..Len(sim.world.factions.influence) :
        /\ DHas(sim'.world.factions.influence, sim.world.factions.influence[i][1])
        /\ DGet(sim'.world.factions.influence,
                sim.world.factions.influence[i][1], 0)
               >= sim.world.factions.influence[i][2]

\* The world has a controller whose influence is at the loss threshold.
HoldsControl(fs) ==
    /\ fs.control # NoId
    /\ DGet(fs.influence, fs.control, 0) >= fs.control_threshold_loss

\* C28: no operation on a world's faction state lowers or deletes a
\* faction's influence; hence a world controlled by F in which F's
\* influence is at least control_threshold_loss is controlled by F after
\* every further operation (and F's influence is still at the threshold).
C28ControlKept ==
    [][/\ InfluenceKept
       /\ HoldsControl(sim.world.factions) =>
              /\ sim'.world.factions.control = sim.world.factions.control
              /\ HoldsControl(sim'.world.factions)]_vars

\* C28, witness: a rival has been raised to the gain threshold and above
\* the controller, who is at the loss threshold and has kept the world.
C28Witness ==
    /\ sim.calls > 0
    /\ sim.prev_control = "f1"
    /\ sim.world.factions.control = "f1"
    /\ DGet(sim.world.factions.influence, "f1", 0)
           >= sim.world.factions.control_threshold_loss
    /\ DGet(sim.world.factions.influence, "f2", 0)
           >= sim.world.factions.control_threshold_gain
    /\ DGet(sim.world.factions.influence, "f2", 0)
           > DGet(sim.world.factions.influence, "f1", 0)
    /\ DGet(sim.world.factions.influence, "f2", 0) = 700


-----------------------------------------------------------------------------
(* visualizer/app.py: a step taken again after a rewind of one tick.       *)

MaxReplaySteps == 3

\* A controller that steps, is rewound by one tick and steps again;
\* `target` is the snapshot of the state the rewind left behind, `steps`
\* the number of calls of step_once before it, `ok` whether all of them
\* completed, `again` whether the step after the rewind did.
InitReplay ==
    /\ \E seed \in 0..MaxSeed, stressed \in BOOLEAN, trading \in BOOLEAN,
          events \in BOOLEAN, food \in {5 * QS, 50 * QS} :
           sim = [c |-> SimulationController(
                            Universe(seed, 0, food, stressed, FALSE, TRUE,
                                     trading, FALSE, events), MaxHistory),
                  phase |-> "run", target |-> None, steps |-> 0, ok |-> TRUE,
                  again |-> FALSE]
    /\ twin = None

\* controller.step_once(), before the rewind
ReplayStep ==
    /\ sim.phase = "run"
    /\ sim.steps < MaxReplaySteps
    /\ \E d \in {step_once(sim.c)} :
           sim' = [sim EXCEPT !.c = d, !.steps = @ + 1,
                              !.ok = @ /\ d.tick_count = sim.c.tick_count + 1]
    /\ UNCHANGED twin

\* controller.rewind(1)
RewindOne ==
    /\ sim.phase = "run"
    /\ sim.steps >= 1
    /\ sim' = [sim EXCEPT !.c = rewind(sim.c, 1), !.phase = "rewound",
                          !.target = to_dict(sim.c.state)]
    /\ UNCHANGED twin

\* controller.step_once(), after the rewind
StepAgain ==
    /\ sim.phase = "rewound"
    /\ \E d \in {step_once(sim.c)} :
           sim' = [sim EXCEPT !.c = d, !.phase = "replayed",
                              !.again = d.tick_count = sim.c.tick_count + 1]
    /\ UNCHANGED twin

NextReplay ==
    \/ ReplayStep
    \/ RewindOne
    \/ StepAgain

SpecReplay == InitReplay /\ [][NextReplay]_vars

\* C29: after m >= 1 successful calls of step_once, rewind(1) followed by
\* step_once brings back exactly the state, as to_dict shows it, that
\* existed before the rewind, the outcomes of the event rolls and of the
\* per-capita consumption included.
C29ReplayExact ==
    (sim.phase = "replayed" /\ sim.ok) =>
        /\ sim.again
        /\ to_dict(sim.c.state) = sim.target


-----------------------------------------------------------------------------
(* economy/consumption.py: a population without food, consume being called *)
(* once a tick and nothing else touching the world.                        *)

MaxPopulation == 40

\* A populated world whose market holds no food (no entry, or an entry of
\* zero); `before` is the world before the last call of consume.
InitStarve ==
    /\ \E size \in 1..MaxPopulation, food_rate \in {1, 3},
          food \in {<< >>, << <<"food", 0>> >>},
          consumer_goods \in {0, 30 * QS}, stressed \in BOOLEAN :
           LET w == World(IF stressed THEN 30 ELSE PS, PS,
                          IF stressed THEN 995 ELSE 0,
                          IF stressed THEN 990 ELSE 0, {},
                          Market(food \o (IF consumer_goods > 0
                                          THEN << <<"consumer_goods",
                                                    consumer_goods>> >>
                                          ELSE << >>),
                                 << >>, << >>),
                          Population(size, << >>, food_rate, 1, 1), None, None)
           IN  sim = [world |-> w, before |-> w, op |-> "init"]
    /\ twin = None

\* consume(world, tick), the tick's call
ConsumeStarving ==
    /\ \E w \in {consume(sim.world)} :
           sim' = [world |-> w, before |-> sim.world, op |-> "consume"]
    /\ UNCHANGED twin

NextStarve == ConsumeStarving

SpecStarve == InitStarve /\ [][NextStarve]_vars

\* A call of consume would change the run: ENABLED <<ConsumeStarving>>_vars.
ConsumeChanges ==
    sim # [world |-> consume(sim.world), before |-> sim.world, op |-> "consume"]

\* step calls consume for every world in every tick: weak fairness of
\* ConsumeStarving, WF_vars(ConsumeStarving), with its ENABLED written out.
SpecStarveFair ==
    SpecStarve /\ ([]<>~ConsumeChanges \/ []<><<ConsumeStarving>>_vars)

\* The population is gone and the last call found nobody starving.
Extinct ==
    /\ sim.world.population.size = 0
    /\ sim.world.starvation_level = 0

\* C30: a world with a population and a market whose food stock is 0 at
\* every call of consume, the food rate being positive: the size strictly
\* decreases at every call while it is positive, it reaches 0 after
\* finitely many ticks, and from then on it stays 0, the starvation level
\* is 0 and the pressures change no more.
C30StarvesToZero ==
    /\ [](sim.op = "consume" =>
             /\ sim.before.population.size > 0 =>
                    sim.world.population.size < sim.before.population.size
             /\ sim.before.population.size = 0 =>
                    /\ Extinct
                    /\ sim.world.scarcity = sim.before.scarcity
                    /\ sim.world.unrest = sim.before.unrest
                    /\ sim.world.stability = sim.before.stability)
    /\ <>[]Extinct

\* C30, witness: consume has run on a world whose population had starved
\* to nothing before; it starves no more.
C30Witness ==
    /\ sim.op = "consume"
    /\ sim.before.population.size = 0
    /\ sim.before.starvation_level = PS
    /\ Extinct

=============================================================================
